---- MODULE Spec2Model ----
(***************************************************************************)
(* P2PFileTransfer: the staging registry behind the HTTP surface          *)
(* (setup_flask_app in macos.py / windows.py, the two copies are          *)
(* identical).  pending_files is a dict, transfer_history a list; the     *)
(* Flask development server handles every request on a thread of its own, *)
(* so the statements of upload_file, download_file and remove_file        *)
(* interleave.  The staged bytes live in the file system at               *)
(* ~/Desktop/<filename>.                                                   *)
(*                                                                         *)
(* Timestamps (upload_time, transfer_time) are left out of the records:   *)
(* no modelled statement reads them.                                       *)
(***************************************************************************)
EXTENDS Integers, Sequences, FiniteSets, TLC

\* Number of HTTP requests of one run; request t is the t-th to arrive.
NumRequests == 3
\* The pieces the body of one connection arrives in, at most.
MaxReads == 3
\* The calls of send_file of one run.
NumSends == 2
\* The datagrams the discovery socket receives in one run.
MaxDatagrams == 3
\* The TCP connections peers open in one run; connection c is the c-th
\* the accept loop returns.
NumConns == 2
Conns == 1..NumConns
\* The iterations of the web server monitor in one run.
MaxTicks == 3
\* The calls of discover_devices in one run.
NumBroadcasts == 2
Requests == 1..NumRequests
\* File names a client uploads ("" is the empty filename of line 183).
Names == {"a.txt", "b.txt"}
\* Bodies a client uploads: the empty file and a file of one byte.
Bodies == {<<>>, <<"x">>}

VARIABLES
    pending_files,     \* self.pending_files: file_id -> entry
    transfer_history,  \* self.transfer_history
    disk,              \* the file system: path -> bytes of the file
    nextId,            \* the ids uuid.uuid4() has handed out so far
    pc,                \* per request: the statement it is at
    op,                \* per request: "upload", "download", "remove",
                       \* "list_pending", "list_history"
    filename,          \* upload: file.filename
    content,           \* upload: the bytes of the multipart field
    file_id,           \* the file_id generated, or taken from the URL
    frame,             \* the handler's other locals, gone when it returns
    status_code,       \* the HTTP status of the response, 0 while running
    resp_body          \* the body of the response: the bytes send_file
                       \* delivers, or the value jsonify serialises

\* The TCP receive handlers (handle_file_transfer), one thread for each
\* connection.
VARIABLES
    handler,           \* connection -> its handler's position and locals
    client_socket,     \* connection -> the socket, as its handler sees it
    downloads,         \* ~/Downloads: filename -> content of the file
    notifications      \* what the user was told, in order

web == <<pending_files, transfer_history, disk, nextId, pc, op, filename,
         content, file_id, frame, status_code, resp_body>>
receiver == <<handler, client_socket, downloads, notifications>>

\* The TCP sender (send_file).
VARIABLES
    sender,            \* the position and locals of the call of send_file
    connections,       \* the sockets send_file created, and their state
    wire,              \* what was written to the newest of them, in order
    source             \* the file at file_path: whether it exists, its length

sending == <<sender, connections, wire, source>>
transfer == <<receiver, sending>>

\* The process and its discovery service (start_discovery_service).
VARIABLES
    running,           \* self.running
    devices,           \* self.devices: device_id -> device
    discovery,         \* discovery_thread: its position and locals
    outbox,            \* the datagrams sendto has sent, in order
    clock              \* what time.time() returns next

discovering == <<devices, discovery, outbox, clock>>

\* The TCP transfer listener (start_file_server).
VARIABLES
    server             \* server_thread: its position, the connections
                       \* accept has returned

accepting == <<server>>

\* The web server and its monitor (start_web_server_monitor).
VARIABLES
    monitor,           \* monitor_thread: its position, its iterations
    web_server_thread, \* self.web_server_thread: the newest of the
                       \* threads below (0: None)
    web_threads,       \* the threads start_web_server created: "starting",
                       \* "serving" or "dead"
    web_port           \* who listens on port 4848: "free", "self" (a
                       \* thread of this process), "other" (another
                       \* process)

supervising == <<monitor, web_server_thread, web_threads, web_port>>

\* A second instance of the program on the same network, and
\* discover_devices.
VARIABLES
    peer,              \* the discovery thread of the other instance
    net,               \* the datagrams sent to this instance's discovery
                       \* socket
    broadcasts         \* the calls of discover_devices so far

pairing == <<peer, net, broadcasts>>
services == <<running, discovering, accepting, supervising, pairing>>

vars == <<web, transfer, services>>

\* What the actions of one part leave alone.
beyondWeb == <<transfer, services>>
beyondReceiver == <<web, sending, services>>
beyondSending == <<receiver, web, services>>
beyondDiscovery == <<web, transfer, accepting, supervising, pairing>>
beyondAccepting == <<web, sending, running, discovering, supervising,
                     pairing>>
beyondSupervising == <<web, transfer, running, discovering, accepting,
                       pairing>>
beyondPairing == <<web, transfer, running, discovering, accepting,
                   supervising>>

shared == <<pending_files, transfer_history, disk>>
request == <<op, filename, content, file_id>>

device_name == "host"
NoInfo == [id |-> 0, name |-> "", path |-> <<>>, size |-> 0, status |-> ""]
\* file_info (download, remove); size: the value of os.path.getsize
\* (upload); fd: the file file.save has open (upload): "open" while it is
\* the file the path names, "unlinked" once os.remove took it off the path.
\* json_arg: what the list routes hand to jsonify: a new list ("copy") or
\* the list object of the registry itself ("live"), with the content it
\* had when the route evaluated it.
NoFrame == [file_info |-> NoInfo, size |-> 0, fd |-> "none",
            json_arg |-> [ref |-> "none", value |-> <<>>]]

\* Ids a client may put in /api/download/<id> and /api/remove/<id>: the
\* ids handed out so far, and 0 for any string that is no such id.
Ids == 0..nextId

\* os.path.join(os.path.expanduser('~'), 'Desktop', file.filename)
temp_path(name) == <<"~", "Desktop", name>>

\* d[k] = v on a dict
DictSet(d, k, v) == [x \in DOMAIN d \cup {k} |-> IF x = k THEN v ELSE d[x]]
\* del d[k] on a dict that has k
DictDel(d, k) == [x \in DOMAIN d \ {k} |-> d[x]]

\* list(self.pending_files.values())
listPending == [k \in DOMAIN pending_files |-> pending_files[k]]

\* A write of b at offset 0 of a file holding old.
WriteAt0(old, b) ==
    [i \in 1..(IF Len(b) > Len(old) THEN Len(b) ELSE Len(old)) |->
        IF i <= Len(b) THEN b[i] ELSE old[i]]

\* recv(1024) and recv(min(8192, ...)), f.read(8192).
HeaderFrame == 1024
ChunkSize == 8192

Min(a, b) == IF a < b THEN a ELSE b

\* A JSON value of the header: an integer, or something else (a string).
IntValue(n) == [type |-> "int", val |-> n]
StrValue == [type |-> "str", val |-> 0]

NoHeader == [filename |-> "", filesize |-> IntValue(0)]
\* A chunk: len bytes of the connection's body stream, from offset from.
NoChunk == [from |-> 0, len |-> 0]
NoRecv == [phase |-> "none", bufsize |-> 0, n |-> 0]

\* The handler before the accept loop calls it; result is "True" or
\* "False" once the acceptance is decided.
NoHandler == [pc |-> "idle", platform |-> "none", file_info |-> NoHeader,
              result |-> "unbound", received |-> 0, chunk |-> NoChunk,
              error |-> "none"]

\* first: what the first recv returned, <<doc, n>>: the first n bytes of
\* doc and what follows it; pos: the body bytes read so far; reads: the
\* recv calls that returned body bytes; sent: what the handler wrote to the
\* peer; last_recv: the most recent recv call and its result.
NewSocket == [closed |-> FALSE, first |-> <<>>, pos |-> 0, reads |-> 0,
              sent |-> <<>>, last_recv |-> NoRecv]

InitReceiver ==
    /\ handler = [c \in Conns |-> NoHandler]
    /\ client_socket = [c \in Conns |-> NewSocket]
    /\ downloads = <<>>
    /\ notifications = <<>>

\* send_file before a call: client_socket is the socket created (0: not
\* in locals()), tell the position of f.
NoSender == [pc |-> "idle", calls |-> 0, client_socket |-> 0,
             file_info |-> NoHeader, total_size |-> 0, sent |-> 0,
             tell |-> 0, chunk |-> NoChunk, error |-> "none",
             reported |-> "none"]

\* No file at file_path; a file of n bytes.
NoFile == [exists |-> FALSE, size |-> 0]
FileOf(n) == [exists |-> TRUE, size |-> n]

InitSender ==
    /\ sender = NoSender
    /\ connections = <<>>
    /\ wire = <<>>
    /\ source = NoFile

\* discovery_thread before it runs; message and addr: the datagram in
\* hand.
NoDiscovery == [pc |-> "idle", message |-> <<>>, addr |-> "", received |-> 0]

\* server_thread before run() starts it; accepted: the connections accept
\* has returned so far.
NoServer == [pc |-> "idle", accepted |-> 0]

\* monitor_thread as __init__ starts it; ticks: the iterations begun.
NewMonitor == [pc |-> "m_while", ticks |-> 0]

InitServices ==
    /\ running = TRUE
    /\ devices = <<>>
    /\ discovery = NoDiscovery
    /\ outbox = <<>>
    /\ clock = 1
    /\ server = NoServer
    /\ monitor = NewMonitor
    /\ web_server_thread = 0
    /\ web_threads = <<>>
    /\ web_port = "free"
    /\ peer = [pc |-> "d_recv", message |-> <<>>, addr |-> ""]
    /\ net = {}
    /\ broadcasts = 0

Init ==
    /\ pending_files = <<>>
    /\ transfer_history = <<>>
    /\ disk = <<>>
    /\ nextId = 0
    /\ pc = [t \in Requests |-> "idle"]
    /\ op = [t \in Requests |-> "none"]
    /\ filename = [t \in Requests |-> ""]
    /\ content = [t \in Requests |-> <<>>]
    /\ file_id = [t \in Requests |-> 0]
    /\ frame = [t \in Requests |-> NoFrame]
    /\ status_code = [t \in Requests |-> 0]
    /\ resp_body = [t \in Requests |-> <<>>]
    /\ InitReceiver
    /\ InitSender
    /\ InitServices

\* Request t arrives next: all earlier requests have arrived.
Arrives(t) ==
    /\ pc[t] = "idle"
    /\ \A u \in Requests : u < t => pc[u] # "idle"

\* return <response>, <code>: the handler's frame is gone.
Return(t, code) ==
    /\ pc' = [pc EXCEPT ![t] = "done"]
    /\ status_code' = [status_code EXCEPT ![t] = code]
    /\ frame' = [frame EXCEPT ![t] = NoFrame]
    /\ UNCHANGED beyondWeb

\* On to the statement at label, with the locals fr.
GotoWith(t, label, fr) ==
    /\ pc' = [pc EXCEPT ![t] = label]
    /\ frame' = [frame EXCEPT ![t] = fr]
    /\ UNCHANGED <<status_code, beyondWeb>>

Goto(t, label) == GotoWith(t, label, frame[t])

\* ------------------------------------------------------------------
\* POST /api/upload
\* ------------------------------------------------------------------

\* The two 400 answers of upload_file.
UploadRejects(hasFile, name) == ~hasFile \/ name = ""

\* upload_file up to file_id = str(uuid.uuid4()) and temp_path.
UploadBegin(t, hasFile, name, bytes) ==
    /\ Arrives(t)
    /\ op' = [op EXCEPT ![t] = "upload"]
    /\ IF UploadRejects(hasFile, name)
       THEN /\ Return(t, 400)
            /\ UNCHANGED <<nextId, file_id, filename, content>>
       ELSE /\ nextId' = nextId + 1
            /\ file_id' = [file_id EXCEPT ![t] = nextId + 1]
            /\ filename' = [filename EXCEPT ![t] = name]
            /\ content' = [content EXCEPT ![t] = bytes]
            /\ Goto(t, "u_open")
    /\ UNCHANGED <<shared, resp_body>>

\* file.save(temp_path): open(dst, "wb") creates or truncates the file.
SaveOpen(t, ok) ==
    /\ pc[t] = "u_open"
    /\ LET p == temp_path(filename[t]) IN
       IF ok
       THEN /\ disk' = DictSet(disk, p, <<>>)
            /\ GotoWith(t, "u_write", [frame[t] EXCEPT !.fd = "open"])
       ELSE /\ Return(t, 500)
            /\ UNCHANGED disk
    /\ UNCHANGED <<pending_files, transfer_history, nextId, request,
                   resp_body>>

\* The entry upload_file records.
NewEntry(t) ==
    [id |-> file_id[t], name |-> filename[t],
     path |-> temp_path(filename[t]), size |-> frame[t].size,
     status |-> "pending"]

\* A file.save that leaves an entry behind when the write fails.
SaveWrite_registers(t, ok) ==
    /\ pc[t] = "u_write"
    /\ LET p == temp_path(filename[t]) IN
       IF ok
       THEN /\ disk' = IF frame[t].fd = "open"
                       THEN DictSet(disk, p, WriteAt0(disk[p], content[t]))
                       ELSE disk
            /\ GotoWith(t, "u_getsize", [frame[t] EXCEPT !.fd = "none"])
            /\ UNCHANGED pending_files
       ELSE /\ Return(t, 500)
            /\ pending_files' =
                   DictSet(pending_files, file_id[t], NewEntry(t))
            /\ UNCHANGED disk
    /\ UNCHANGED <<transfer_history, nextId, request, resp_body>>

\* file.save(temp_path): the bytes reach the open file at offset 0 (it may
\* no longer be the file the path names), and the file is closed.
SaveWrite(t, ok) ==
    /\ pc[t] = "u_write"
    /\ LET p == temp_path(filename[t]) IN
       IF ok
       THEN /\ disk' = IF frame[t].fd = "open"
                       THEN DictSet(disk, p, WriteAt0(disk[p], content[t]))
                       ELSE disk
            /\ GotoWith(t, "u_getsize", [frame[t] EXCEPT !.fd = "none"])
       ELSE /\ Return(t, 500)
            /\ UNCHANGED disk
    /\ UNCHANGED <<pending_files, transfer_history, nextId, request,
                   resp_body>>

\* os.path.getsize(temp_path), evaluated while the entry is built.
GetSize(t) ==
    /\ pc[t] = "u_getsize"
    /\ LET p == temp_path(filename[t]) IN
       IF p \in DOMAIN disk
       THEN GotoWith(t, "u_store",
                     [frame[t] EXCEPT !.size = Len(disk[p])])
       ELSE Return(t, 500)
    /\ UNCHANGED <<shared, nextId, request, resp_body>>

\* self.pending_files[file_id] = {...}; return success.
Store(t) ==
    /\ pc[t] = "u_store"
    /\ pending_files' = DictSet(pending_files, file_id[t], NewEntry(t))
    /\ Return(t, 200)
    /\ UNCHANGED <<transfer_history, disk, nextId, request, resp_body>>

UploadStep ==
    \E t \in Requests :
        \/ \E hasFile \in BOOLEAN, name \in Names \cup {""}, b \in Bodies :
               UploadBegin(t, hasFile, name, b)
        \/ \E ok \in BOOLEAN : SaveOpen(t, ok)
        \/ \E ok \in BOOLEAN : SaveWrite(t, ok)
        \/ GetSize(t)
        \/ Store(t)

\* ------------------------------------------------------------------
\* GET /api/download/<file_id>
\* ------------------------------------------------------------------

\* A guard that never answers 404.
NotPending_never(id) == FALSE

\* file_id not in self.pending_files
NotPending(id) == id \notin DOMAIN pending_files

\* if file_id not in self.pending_files: return ..., 404
DownloadCheck(t, id) ==
    /\ Arrives(t)
    /\ id \in Ids
    /\ op' = [op EXCEPT ![t] = "download"]
    /\ file_id' = [file_id EXCEPT ![t] = id]
    /\ IF NotPending(id)
       THEN Return(t, 404)
       ELSE Goto(t, "d_read")
    /\ UNCHANGED <<shared, nextId, filename, content, resp_body>>

\* file_info = self.pending_files[file_id]; a KeyError ends in a 500.
DownloadRead(t) ==
    /\ pc[t] = "d_read"
    /\ IF file_id[t] \in DOMAIN pending_files
       THEN GotoWith(t, "d_append",
                [frame[t] EXCEPT !.file_info = pending_files[file_id[t]]])
       ELSE Return(t, 500)
    /\ UNCHANGED <<shared, nextId, request, resp_body>>

\* The TransferRecord download_file builds.
NewRecord(t) ==
    [file_name |-> frame[t].file_info.name, device |-> device_name,
     status |-> "completed"]

\* The records already there are marked when one is added.
ListAppend_marks(list, record) ==
    [i \in 1..Len(list) |-> [list[i] EXCEPT !.status = "old"]]
        \o <<record>>

\* list.append(record)
ListAppend(list, record) == Append(list, record)

\* self.transfer_history.append({...})
DownloadAppend(t) ==
    /\ pc[t] = "d_append"
    /\ transfer_history' = ListAppend(transfer_history, NewRecord(t))
    /\ Goto(t, "d_del")
    /\ UNCHANGED <<pending_files, disk, nextId, request, resp_body>>

\* del self.pending_files[file_id]; a KeyError ends in a 500.
DownloadDel(t) ==
    /\ pc[t] = "d_del"
    /\ IF file_id[t] \in DOMAIN pending_files
       THEN /\ pending_files' = DictDel(pending_files, file_id[t])
            /\ Goto(t, "d_send")
       ELSE /\ Return(t, 500)
            /\ UNCHANGED pending_files
    /\ UNCHANGED <<transfer_history, disk, nextId, request, resp_body>>

\* return send_file(file_info['path'], ...): the bytes now at the path;
\* a missing file raises and ends in a 500.
DownloadSend(t) ==
    /\ pc[t] = "d_send"
    /\ LET p == frame[t].file_info.path IN
       IF p \in DOMAIN disk
       THEN /\ resp_body' = [resp_body EXCEPT ![t] = disk[p]]
            /\ Return(t, 200)
       ELSE /\ Return(t, 500)
            /\ UNCHANGED resp_body
    /\ UNCHANGED <<shared, nextId, request>>

DownloadStep ==
    \E t \in Requests :
        \/ \E id \in 0..NumRequests : DownloadCheck(t, id)
        \/ DownloadRead(t)
        \/ DownloadAppend(t)
        \/ DownloadDel(t)
        \/ DownloadSend(t)

\* ------------------------------------------------------------------
\* DELETE /api/remove/<file_id>
\* ------------------------------------------------------------------

\* if file_id not in self.pending_files: return ..., 404
RemoveCheck(t, id) ==
    /\ Arrives(t)
    /\ id \in Ids
    /\ op' = [op EXCEPT ![t] = "remove"]
    /\ file_id' = [file_id EXCEPT ![t] = id]
    /\ IF NotPending(id)
       THEN Return(t, 404)
       ELSE Goto(t, "r_read")
    /\ UNCHANGED <<shared, nextId, filename, content, resp_body>>

\* file_info = self.pending_files[file_id]; a KeyError ends in a 500.
RemoveRead(t) ==
    /\ pc[t] = "r_read"
    /\ IF file_id[t] \in DOMAIN pending_files
       THEN GotoWith(t, "r_exists",
                [frame[t] EXCEPT !.file_info = pending_files[file_id[t]]])
       ELSE Return(t, 500)
    /\ UNCHANGED <<shared, nextId, request, resp_body>>

\* if os.path.exists(file_info['path']):
RemoveExists(t) ==
    /\ pc[t] = "r_exists"
    /\ IF frame[t].file_info.path \in DOMAIN disk
       THEN Goto(t, "r_unlink")
       ELSE Goto(t, "r_del")
    /\ UNCHANGED <<shared, nextId, request, resp_body>>

\* An os.remove that leaves the file in place.
OsRemove_keeps(d, p) == d

\* os.remove(path) on a file system that has path
OsRemove(d, p) == DictDel(d, p)

\* The frames after os.remove(p): a file.save that has p open holds an
\* unlinked file from now on.
Unlinked(p) ==
    [u \in Requests |->
        IF frame[u].fd = "open" /\ temp_path(filename[u]) = p
        THEN [frame[u] EXCEPT !.fd = "unlinked"]
        ELSE frame[u]]

\* os.remove(file_info['path']); a FileNotFoundError ends in a 500.
RemoveUnlink(t) ==
    /\ pc[t] = "r_unlink"
    /\ LET p == frame[t].file_info.path IN
       IF p \in DOMAIN disk
       THEN /\ disk' = OsRemove(disk, p)
            /\ pc' = [pc EXCEPT ![t] = "r_del"]
            /\ frame' = Unlinked(p)
            /\ UNCHANGED <<status_code, beyondWeb>>
       ELSE /\ Return(t, 500)
            /\ UNCHANGED disk
    /\ UNCHANGED <<pending_files, transfer_history, nextId, request,
                   resp_body>>

\* del self.pending_files[file_id]; return success. A KeyError ends in a 500.
RemoveDel(t) ==
    /\ pc[t] = "r_del"
    /\ IF file_id[t] \in DOMAIN pending_files
       THEN /\ pending_files' = DictDel(pending_files, file_id[t])
            /\ Return(t, 200)
       ELSE /\ Return(t, 500)
            /\ UNCHANGED pending_files
    /\ UNCHANGED <<transfer_history, disk, nextId, request, resp_body>>

RemoveStep ==
    \E t \in Requests :
        \/ \E id \in 0..NumRequests : RemoveCheck(t, id)
        \/ RemoveRead(t)
        \/ RemoveExists(t)
        \/ RemoveUnlink(t)
        \/ RemoveDel(t)

Next == UploadStep \/ DownloadStep \/ RemoveStep

Spec == Init /\ [][Next]_vars

\* ------------------------------------------------------------------
\* GET /api/pending_files, GET /api/transfer_history
\* ------------------------------------------------------------------

\* get_pending_files: the argument list(self.pending_files.values()) is a
\* new list.
PendingList(t) ==
    /\ Arrives(t)
    /\ op' = [op EXCEPT ![t] = "list_pending"]
    /\ GotoWith(t, "l_json",
           [frame[t] EXCEPT !.json_arg =
               [ref |-> "copy", value |-> listPending]])
    /\ UNCHANGED <<shared, nextId, filename, content, file_id, resp_body>>

\* get_transfer_history: the argument self.transfer_history is the list
\* of the registry.
HistoryList(t) ==
    /\ Arrives(t)
    /\ op' = [op EXCEPT ![t] = "list_history"]
    /\ GotoWith(t, "l_json",
           [frame[t] EXCEPT !.json_arg =
               [ref |-> "live", value |-> transfer_history]])
    /\ UNCHANGED <<shared, nextId, filename, content, file_id, resp_body>>

\* The content of the object jsonify was handed, when it is read.
Deref(arg) == IF arg.ref = "live" THEN transfer_history ELSE arg.value

\* return jsonify(...): the argument is serialised.
Jsonify(t) ==
    /\ pc[t] = "l_json"
    /\ resp_body' = [resp_body EXCEPT ![t] = Deref(frame[t].json_arg)]
    /\ Return(t, 200)
    /\ UNCHANGED <<shared, nextId, request>>

ListStep ==
    \E t \in Requests :
        \/ PendingList(t)
        \/ HistoryList(t)
        \/ Jsonify(t)

NextList == Next \/ ListStep

SpecList == Init /\ [][NextList]_vars

\* ------------------------------------------------------------------
\* handle_file_transfer(client_socket): the TCP receive handler
\* ------------------------------------------------------------------

Platforms == {"macos", "windows"}
\* Declared sizes: the empty file, one byte, one full chunk, one byte
\* more than a chunk.
Sizes == {0, 1, ChunkSize, ChunkSize + 1}
\* filesize values a peer can put in a header: the sizes, a negative
\* integer, a string.
SizeValues == {IntValue(n) : n \in Sizes \cup {-1}} \cup {StrValue}

\* What a peer puts at the start of the stream: a JSON object with the
\* fields given, or bytes that are no JSON document; len bytes long.
Docs ==
    {[json |-> "object", len |-> l,
      fields |-> [filename |-> "a.txt", filesize |-> v]] :
        l \in {40, HeaderFrame + 1}, v \in SizeValues}
    \cup {[json |-> "object", len |-> 40, fields |-> [filename |-> "a.txt"]],
          [json |-> "object", len |-> 40,
           fields |-> [filesize |-> IntValue(1)]],
          [json |-> "garbage", len |-> 40, fields |-> <<>>]}

\* A parser that also takes the frame-long beginning of a longer object.
JsonLoads_truncated(doc, n) ==
    doc.json = "object" /\ (n = doc.len \/ (n = HeaderFrame /\ n < doc.len))

\* json.loads(header): only the whole document, and nothing after it,
\* is a JSON document.
JsonLoads(doc, n) == doc.json = "object" /\ n = doc.len

\* file_info['filename'], file_info['filesize'] raise no KeyError.
HasKeys(doc) == {"filename", "filesize"} \subseteq DOMAIN doc.fields

\* The handler goes on at label.
HandlerAt(c, label) == [handler EXCEPT ![c].pc = label]

\* An exception that ends the handler at once, with no finally clause.
Raised_unclosed(c, e) ==
    [handler EXCEPT ![c].pc = "h_done", ![c].error = e]

\* except Exception as e: print(...); then the finally clause.
Raised(c, e) ==
    [handler EXCEPT ![c].pc = "h_finally", ![c].error = e]

\* handle_file_transfer(client_socket) begins on a thread of its own.
HandlerStarts(c, p) ==
    /\ handler[c].pc = "idle"
    /\ handler' = [handler EXCEPT ![c].pc = "h_header", ![c].platform = p]
    /\ UNCHANGED <<client_socket, downloads, notifications>>

\* The handler of connection c begins, whoever accepted the connection.
StartHandler(c, p) == HandlerStarts(c, p) /\ UNCHANGED beyondReceiver

\* header = client_socket.recv(1024).decode(); json.loads(header);
\* filename, filesize. The connection delivers the first n bytes of what
\* the peer sent (n = 0: the peer closed), or fails (ok = FALSE).
RecvHeader(c, doc, n, ok) ==
    /\ handler[c].pc = "h_header"
    /\ n <= HeaderFrame
    /\ n <= doc.len + 1
    /\ IF ~ok
       THEN /\ handler' = Raised(c, "recv")
            /\ client_socket' = [client_socket EXCEPT
                   ![c].last_recv = [phase |-> "header",
                                  bufsize |-> HeaderFrame, n |-> 0]]
       ELSE /\ client_socket' = [client_socket EXCEPT
                   ![c].first = <<doc, n>>,
                   ![c].last_recv = [phase |-> "header",
                                  bufsize |-> HeaderFrame, n |-> n]]
            /\ IF JsonLoads(doc, n) /\ HasKeys(doc)
               THEN handler' = [handler EXCEPT ![c].pc = "h_policy",
                                    ![c].file_info = doc.fields]
               ELSE handler' = Raised(c, "header")
    /\ UNCHANGED <<downloads, notifications, beyondReceiver>>

\* if result: ... else: ...
IfResult(answer) == IF answer THEN "h_open" ELSE "h_reject"

\* The branch taken whatever the answer is.
Policy_ignores(c, answer) ==
    /\ handler[c].pc = "h_policy"
    /\ IF handler[c].platform = "macos"
       THEN /\ answer = TRUE
            /\ notifications' = Append(notifications, "incoming")
       ELSE UNCHANGED notifications
    /\ handler' = [handler EXCEPT
                       ![c].result = IF answer THEN "True" ELSE "False",
                       ![c].pc = "h_open"]
    /\ UNCHANGED <<client_socket, downloads, beyondReceiver>>

\* macOS: the "Incoming file" notification, then result = True.
\* Windows: result = messagebox.askyesno(...).
Policy(c, answer) ==
    /\ handler[c].pc = "h_policy"
    /\ IF handler[c].platform = "macos"
       THEN /\ answer = TRUE
            /\ notifications' = Append(notifications, "incoming")
       ELSE UNCHANGED notifications
    /\ handler' = [handler EXCEPT
                       ![c].result = IF answer THEN "True" ELSE "False",
                       ![c].pc = IfResult(answer)]
    /\ UNCHANGED <<client_socket, downloads, beyondReceiver>>

\* with open(file_path, 'wb') as f: received = 0.
OpenFile(c, ok) ==
    /\ handler[c].pc = "h_open"
    /\ IF ok
       THEN /\ downloads' = DictSet(downloads, handler[c].file_info.filename,
                                    <<>>)
            /\ handler' = [handler EXCEPT ![c].pc = "h_while", ![c].received = 0]
       ELSE /\ handler' = Raised(c, "open")
            /\ UNCHANGED downloads
    /\ UNCHANGED <<client_socket, notifications, beyondReceiver>>

\* A loop whose body runs once before the first test.
Received_once(received, filesize) == received = 0 \/ received < filesize

\* A loop that also ends when the process is no longer running.
Received_running(received, filesize) == running /\ received < filesize

\* received < filesize
Received(received, filesize) == received < filesize

\* while received < filesize: comparing with a value that is no number
\* raises TypeError.
WhileTest(c) ==
    /\ handler[c].pc = "h_while"
    /\ LET filesize == handler[c].file_info.filesize IN
       handler' =
           IF filesize.type # "int" THEN Raised(c, "type")
           ELSE IF Received(handler[c].received, filesize.val)
                THEN HandlerAt(c, "h_recv")
                ELSE HandlerAt(c, "h_notify")
    /\ UNCHANGED <<client_socket, downloads, notifications, beyondReceiver>>

\* A full chunk asked for, whatever is left.
BufSize_chunk(filesize, received) == ChunkSize

\* min(8192, filesize - received)
BufSize(filesize, received) == Min(ChunkSize, filesize - received)

\* What recv(bufsize) can return when bytes arrive: one byte, or all
\* that was asked for.
RecvSizes(bufsize) == {n \in {1, bufsize} : 1 <= n /\ n <= bufsize}

\* chunk = client_socket.recv(min(8192, filesize - received));
\* if not chunk: break. n = 0: the peer has closed the connection.
RecvBody(c, n, ok) ==
    /\ handler[c].pc = "h_recv"
    /\ LET bufsize == BufSize(handler[c].file_info.filesize.val,
                              handler[c].received) IN
       /\ \/ n = 0
          \/ n \in RecvSizes(bufsize) /\ client_socket[c].reads < MaxReads
       /\ client_socket' = [client_socket EXCEPT
              ![c].last_recv = [phase |-> "body", bufsize |-> bufsize,
                             n |-> IF ok THEN n ELSE 0],
              ![c].pos = IF ok THEN @ + n ELSE @,
              ![c].reads = IF ok /\ n > 0 THEN @ + 1 ELSE @]
       /\ handler' =
              IF ~ok THEN Raised(c, "recv")
              ELSE IF n = 0 THEN HandlerAt(c, "h_notify")
              ELSE [handler EXCEPT ![c].pc = "h_write",
                        ![c].chunk = [from |-> client_socket[c].pos, len |-> n]]
    /\ UNCHANGED <<downloads, notifications, beyondReceiver>>

\* f.write(chunk) at the end of the file: a chunk that continues the last
\* run of stream bytes extends it.
FileAppend(data, chunk) ==
    IF data # <<>> /\ data[Len(data)].from + data[Len(data)].len = chunk.from
    THEN [data EXCEPT ![Len(data)].len = @ + chunk.len]
    ELSE Append(data, chunk)

\* f.write(chunk); received += len(chunk)
WriteChunk(c, ok) ==
    /\ handler[c].pc = "h_write"
    /\ LET name == handler[c].file_info.filename IN
       IF ok
       THEN /\ downloads' = DictSet(downloads, name,
                                FileAppend(downloads[name], handler[c].chunk))
            /\ handler' = [handler EXCEPT ![c].pc = "h_while",
                               ![c].received = @ + handler[c].chunk.len,
                               ![c].chunk = NoChunk]
       ELSE /\ handler' = Raised(c, "write")
            /\ UNCHANGED downloads
    /\ UNCHANGED <<client_socket, notifications, beyondReceiver>>

\* After the with block: the "Transfer completed" notification
\* (macOS), messagebox.showinfo("Success", ...) (Windows).
NotifyReceived(c) ==
    /\ handler[c].pc = "h_notify"
    /\ notifications' = Append(notifications, "completed")
    /\ handler' = HandlerAt(c, "h_finally")
    /\ UNCHANGED <<client_socket, downloads, beyondReceiver>>

\* else: client_socket.send(b"REJECTED")
SendRejected(c, ok) ==
    /\ handler[c].pc = "h_reject"
    /\ IF ok
       THEN /\ client_socket' = [client_socket EXCEPT
                   ![c].sent = Append(@, "REJECTED")]
            /\ handler' = HandlerAt(c, "h_finally")
       ELSE /\ handler' = Raised(c, "send")
            /\ UNCHANGED client_socket
    /\ UNCHANGED <<downloads, notifications, beyondReceiver>>

\* finally: client_socket.close()
CloseSocket(c) ==
    /\ handler[c].pc = "h_finally"
    /\ client_socket' = [client_socket EXCEPT ![c].closed = TRUE]
    /\ handler' = HandlerAt(c, "h_done")
    /\ UNCHANGED <<downloads, notifications, beyondReceiver>>

\* The lengths the first recv is tried with: nothing, one byte, a whole
\* short document, one byte more, a full frame.
FirstReads == {0, 1, 40, 41, HeaderFrame}

\* One connection, every input: the handler of connection 1.
NextRecv ==
    \/ \E p \in Platforms : StartHandler(1, p)
    \/ \E doc \in Docs, n \in FirstReads, ok \in BOOLEAN :
           RecvHeader(1, doc, n, ok)
    \/ \E answer \in BOOLEAN : Policy(1, answer)
    \/ \E ok \in BOOLEAN : OpenFile(1, ok)
    \/ WhileTest(1)
    \/ \E n \in 0..ChunkSize, ok \in BOOLEAN : RecvBody(1, n, ok)
    \/ \E ok \in BOOLEAN : WriteChunk(1, ok)
    \/ NotifyReceived(1)
    \/ \E ok \in BOOLEAN : SendRejected(1, ok)
    \/ CloseSocket(1)

SpecRecv == Init /\ [][NextRecv]_vars

\* ------------------------------------------------------------------
\* send_file(file_path, target_device): the TCP sender
\* ------------------------------------------------------------------

\* No test of the path.
Exists_always(src) == TRUE

\* file_path.exists()
Exists(src) == src.exists

\* The file at file_path is written, truncated, created or deleted by
\* others; it is not deleted while send_file has it open.
SourceChanges(n, gone) ==
    /\ source' = IF gone THEN NoFile ELSE FileOf(n)
    /\ source' # source
    /\ gone => sender.pc \notin {"s_total", "s_while", "s_read", "s_send"}
    /\ UNCHANGED <<sender, connections, wire, beyondSending>>

\* except Exception as e: the error is reported; then the finally clause.
SendRaised(s, e) ==
    [s EXCEPT !.pc = "s_finally", !.error = e, !.reported = "error"]

\* A call of send_file: file_path.exists(), else "File not found!" and
\* return (no client_socket for the finally clause to close).
StartSend ==
    /\ sender.pc \in {"idle", "s_done"}
    /\ sender.calls < NumSends
    /\ sender' = IF Exists(source)
                 THEN [NoSender EXCEPT !.pc = "s_socket",
                                       !.calls = sender.calls + 1]
                 ELSE [NoSender EXCEPT !.pc = "s_done",
                                       !.calls = sender.calls + 1,
                                       !.reported = "not_found"]
    /\ UNCHANGED <<connections, wire, source, beyondSending>>

\* client_socket = socket.socket(AF_INET, SOCK_STREAM)
CreateSocket(ok) ==
    /\ sender.pc = "s_socket"
    /\ IF ok
       THEN /\ connections' = Append(connections, "created")
            /\ wire' = <<>>
            /\ sender' = [sender EXCEPT !.pc = "s_connect",
                              !.client_socket = Len(connections) + 1]
       ELSE /\ sender' = SendRaised(sender, "socket")
            /\ UNCHANGED <<connections, wire>>
    /\ UNCHANGED <<source, beyondSending>>

\* client_socket.connect((target_device['ip'], target_device['port']))
Connect(ok) ==
    /\ sender.pc = "s_connect"
    /\ IF ok
       THEN /\ connections' = [connections EXCEPT
                                  ![sender.client_socket] = "connected"]
            /\ sender' = [sender EXCEPT !.pc = "s_stat"]
       ELSE /\ sender' = SendRaised(sender, "connect")
            /\ UNCHANGED connections
    /\ UNCHANGED <<wire, source, beyondSending>>

\* file_info = {'filename': file_path.name,
\*              'filesize': file_path.stat().st_size}
StatHeader ==
    /\ sender.pc = "s_stat"
    /\ sender' = IF Exists(source)
                 THEN [sender EXCEPT !.pc = "s_header",
                           !.file_info = [filename |-> "a.txt",
                                          filesize |-> IntValue(source.size)]]
                 ELSE SendRaised(sender, "stat")
    /\ UNCHANGED <<connections, wire, source, beyondSending>>

\* The error is noted and the loop goes on.
SendFails_goes_on(s) == [s EXCEPT !.pc = "s_while", !.error = "send"]

\* A failed client_socket.send raises: no other statement of the try
\* block runs.
SendFails(s) == SendRaised(s, "send")

\* client_socket.send(json.dumps(file_info).encode())
SendHeader(ok) ==
    /\ sender.pc = "s_header"
    /\ IF ok
       THEN /\ wire' = Append(wire, [kind |-> "header",
                                     fields |-> sender.file_info])
            /\ sender' = [sender EXCEPT !.pc = "s_open"]
       ELSE /\ sender' = SendFails(sender)
            /\ UNCHANGED wire
    /\ UNCHANGED <<connections, source, beyondSending>>

\* with open(file_path, 'rb') as f: sent = 0
OpenSource ==
    /\ sender.pc = "s_open"
    /\ sender' = IF Exists(source)
                 THEN [sender EXCEPT !.pc = "s_total", !.tell = 0,
                                     !.sent = 0]
                 ELSE SendRaised(sender, "open")
    /\ UNCHANGED <<connections, wire, source, beyondSending>>

\* total_size = file_path.stat().st_size
StatTotal ==
    /\ sender.pc = "s_total"
    /\ sender' = [sender EXCEPT !.pc = "s_while", !.total_size = source.size]
    /\ UNCHANGED <<connections, wire, source, beyondSending>>

\* while sent < total_size:
WhileSent ==
    /\ sender.pc = "s_while"
    /\ sender' = [sender EXCEPT !.pc = IF sender.sent < sender.total_size
                                       THEN "s_read" ELSE "s_success"]
    /\ UNCHANGED <<connections, wire, source, beyondSending>>

\* f.read(8192): the bytes of the file from the position of f on, a chunk
\* at most.
FileRead(src, tell) ==
    [from |-> tell,
     len |-> IF src.size > tell THEN Min(ChunkSize, src.size - tell)
             ELSE 0]

\* chunk = f.read(8192); if not chunk: break
ReadChunk ==
    /\ sender.pc = "s_read"
    /\ LET chunk == FileRead(source, sender.tell) IN
       sender' = IF chunk.len = 0
                 THEN [sender EXCEPT !.pc = "s_success"]
                 ELSE [sender EXCEPT !.pc = "s_send", !.chunk = chunk,
                                     !.tell = @ + chunk.len]
    /\ UNCHANGED <<connections, wire, source, beyondSending>>

\* What socket.send(chunk) can return: one byte sent, or all of them.
SendSizes(len) == {1, len}

\* client_socket.send(chunk) transmits the first n bytes of the chunk;
\* sent += len(chunk). progress_var is None: no progress update.
SendChunk(n, ok) ==
    /\ sender.pc = "s_send"
    /\ n \in SendSizes(sender.chunk.len)
    /\ IF ok
       THEN /\ wire' = Append(wire, [kind |-> "body",
                                     from |-> sender.chunk.from,
                                     len |-> n])
            /\ sender' = [sender EXCEPT !.pc = "s_while",
                              !.sent = @ + sender.chunk.len,
                              !.chunk = NoChunk]
       ELSE /\ sender' = SendFails(sender)
            /\ UNCHANGED wire
    /\ UNCHANGED <<connections, source, beyondSending>>

\* After the with block: "Transfer completed" / "File sent successfully!"
ReportSuccess ==
    /\ sender.pc = "s_success"
    /\ sender' = [sender EXCEPT !.pc = "s_finally", !.reported = "success"]
    /\ UNCHANGED <<connections, wire, source, beyondSending>>

\* Closed only when nothing was raised.
InLocals_no_error(s) == s.client_socket # 0 /\ s.error = "none"

\* 'client_socket' in locals()
InLocals(s) == s.client_socket # 0

\* finally: if 'client_socket' in locals(): client_socket.close()
FinallyClose ==
    /\ sender.pc = "s_finally"
    /\ connections' = IF InLocals(sender)
                      THEN [connections EXCEPT
                               ![sender.client_socket] = "closed"]
                      ELSE connections
    /\ sender' = [sender EXCEPT !.pc = "s_done"]
    /\ UNCHANGED <<wire, source, beyondSending>>

\* The lengths of the chunks f.read(8192) returns for files of Sizes.
ChunkLens == {1, ChunkSize - 1, ChunkSize}

NextSend ==
    \/ \E n \in Sizes, gone \in BOOLEAN : SourceChanges(n, gone)
    \/ StartSend
    \/ \E ok \in BOOLEAN : CreateSocket(ok)
    \/ \E ok \in BOOLEAN : Connect(ok)
    \/ StatHeader
    \/ \E ok \in BOOLEAN : SendHeader(ok)
    \/ OpenSource
    \/ StatTotal
    \/ WhileSent
    \/ ReadChunk
    \/ \E n \in ChunkLens, ok \in BOOLEAN : SendChunk(n, ok)
    \/ ReportSuccess
    \/ FinallyClose

SpecSend == Init /\ [][NextSend]_vars

\* ------------------------------------------------------------------
\* start_discovery_service: discovery_thread (Windows; a stub on macOS)
\* ------------------------------------------------------------------

PeerNames == {"p", "q"}
PeerIps == {"10.0.0.2", "10.0.0.3"}
PeerPorts == {5001, 5002}
\* get_local_ip(): the address of the route to 8.8.8.8, else 127.0.0.1.
LocalIps == {"10.0.0.1", "127.0.0.1"}

\* The datagrams a peer can send: a discovery, the responses, a response
\* that lacks one field, an object without type or of another type, a JSON
\* document that is no object, bytes that are no JSON.
Responses ==
    {[type |-> "response", device_name |-> n, ip |-> i, port |-> p] :
        n \in PeerNames, i \in PeerIps, p \in PeerPorts}
Datagrams ==
    {[json |-> "object", fields |-> f] :
        f \in Responses \cup
              {[type |-> "discovery", device_name |-> "p"],
               [type |-> "response", device_name |-> "p", port |-> 5001],
               [type |-> "response", device_name |-> "p", ip |-> "10.0.0.2"],
               [type |-> "response", ip |-> "10.0.0.2", port |-> 5001],
               [type |-> "bye", device_name |-> "p"],
               [device_name |-> "p"]}}
    \cup {[json |-> "array", fields |-> <<>>],
          [json |-> "garbage", fields |-> <<>>]}

\* The loop goes on at label.
DiscoveryAt(label) == [discovery EXCEPT !.pc = label]

\* self.discovery_socket = socket.socket(...); setsockopt(...)
StartDiscovery(ok) ==
    /\ discovery.pc = "idle"
    /\ discovery' = DiscoveryAt(IF ok THEN "d_while" ELSE "d_done")
    /\ UNCHANGED <<running, devices, outbox, clock, beyondDiscovery>>

\* while self.running:
DiscoveryWhile ==
    /\ discovery.pc = "d_while"
    /\ discovery' = DiscoveryAt(IF running THEN "d_recv" ELSE "d_done")
    /\ UNCHANGED <<running, devices, outbox, clock, beyondDiscovery>>

\* An exception ends the thread.
Dispatch_fatal(dgram) ==
    IF dgram.json # "object" THEN "d_done"
    ELSE IF "type" \notin DOMAIN dgram.fields THEN "d_done"
    ELSE IF dgram.fields.type = "discovery" THEN "d_reply"
    ELSE IF dgram.fields.type = "response" THEN "d_upsert"
    ELSE "d_while"

\* message['type'] of json.loads(data.decode()): the statement the
\* datagram leads to; an exception leads back to the loop test.
Dispatch(dgram) ==
    IF dgram.json # "object" THEN "d_while"
    ELSE IF "type" \notin DOMAIN dgram.fields THEN "d_while"
    ELSE IF dgram.fields.type = "discovery" THEN "d_reply"
    ELSE IF dgram.fields.type = "response" THEN "d_upsert"
    ELSE "d_while"

\* data, addr = self.discovery_socket.recvfrom(1024);
\* message = json.loads(data.decode()); if message['type'] == ...
\* ok = FALSE: recvfrom raises.
RecvFrom(dgram, from, ok) ==
    /\ discovery.pc = "d_recv"
    /\ IF ok
       THEN /\ discovery.received < MaxDatagrams
            /\ discovery' = [discovery EXCEPT
                   !.pc = Dispatch(dgram),
                   !.message = dgram.fields,
                   !.addr = from,
                   !.received = @ + 1]
       ELSE discovery' = DiscoveryAt("d_while")
    /\ UNCHANGED <<running, devices, outbox, clock, beyondDiscovery>>

\* response = {'type': 'response', 'device_name': self.device_name,
\*             'ip': self.get_local_ip()}
Response(ip) ==
    [type |-> "response", device_name |-> device_name, ip |-> ip]

\* self.discovery_socket.sendto(json.dumps(response).encode(), addr)
Reply(ip, ok) ==
    /\ discovery.pc = "d_reply"
    /\ outbox' = IF ok
                 THEN Append(outbox, [to |-> discovery.addr,
                                      message |-> Response(ip)])
                 ELSE outbox
    /\ discovery' = DiscoveryAt("d_while")
    /\ UNCHANGED <<running, devices, clock, beyondDiscovery>>

\* The key under ip alone.
DeviceId_ip(ip, port) == <<ip>>

\* device_id = f"{message['ip']}:{message['port']}"
DeviceId(ip, port) == <<ip, port>>

\* The device a response is stored as.
Device(message, now) ==
    [name |-> message.device_name, ip |-> message.ip,
     port |-> message.port, last_seen |-> now]

\* The table is replaced by one that holds the new device only.
SetItem_only(table, key, device) == DictSet(<<>>, key, device)

\* self.devices[device_id] = {...}
SetItem(table, key, device) == DictSet(table, key, device)

\* self.devices[device_id] = {...}; a KeyError leads back to the loop
\* test. self.update_device_list(): device_listbox is None.
Upsert ==
    /\ discovery.pc = "d_upsert"
    /\ LET message == discovery.message IN
       IF {"ip", "port", "device_name"} \subseteq DOMAIN message
       THEN /\ devices' = SetItem(devices,
                                  DeviceId(message.ip, message.port),
                                  Device(message, clock))
            /\ clock' = clock + 1
       ELSE UNCHANGED <<devices, clock>>
    /\ discovery' = DiscoveryAt("d_while")
    /\ UNCHANGED <<running, outbox, beyondDiscovery>>

\* quit_app: self.running = False
QuitApp ==
    /\ running
    /\ running' = FALSE
    /\ UNCHANGED <<discovering, accepting, supervising, pairing, web,
                   transfer>>

NextDiscovery ==
    \/ \E ok \in BOOLEAN : StartDiscovery(ok)
    \/ DiscoveryWhile
    \/ \E dgram \in Datagrams, from \in PeerIps, ok \in BOOLEAN :
           RecvFrom(dgram, from, ok)
    \/ \E ip \in LocalIps, ok \in BOOLEAN : Reply(ip, ok)
    \/ Upsert
    \/ QuitApp

SpecDiscovery == Init /\ [][NextDiscovery]_vars

\* ------------------------------------------------------------------
\* start_file_server (windows.py): the TCP transfer listener
\* ------------------------------------------------------------------

ServerAt(label) == [server EXCEPT !.pc = label]

\* server_thread: socket(), setsockopt(), listen(5). The socket is bound
\* to no port: listen raises (Windows) or listens on a port the system
\* picks. A failure ends the thread ("File server error").
StartFileServer(ok) ==
    /\ server.pc = "idle"
    /\ server' = ServerAt(IF ok THEN "a_while" ELSE "a_done")
    /\ UNCHANGED <<receiver, beyondAccepting>>

\* The accept loop waits until the handler it started has returned.
StartReturns_joined(c) ==
    IF c \in Conns THEN handler[c].pc = "h_done" ELSE TRUE

\* Thread(...).start() returns at once, whatever the handler does.
StartReturns(c) == TRUE

\* while self.running:
AcceptWhile ==
    /\ server.pc = "a_while"
    /\ StartReturns(server.accepted)
    /\ server' = ServerAt(IF running THEN "a_accept" ELSE "a_done")
    /\ UNCHANGED <<receiver, beyondAccepting>>

\* The accept loop goes on after except Exception.
AcceptFailed_fatal == "a_done"

\* except Exception as e: if self.running: print(...); the loop goes on.
AcceptFailed == "a_while"

\* threading.Thread(target=self.handle_file_transfer,
\*                  args=(client_socket,), daemon=True).start()
Handle(c) == [pc |-> "a_while", accepted |-> c]

\* client_socket, addr = self.server_socket.accept(), and the handler
\* thread. accept returns when a peer connects (ok), or raises.
Accept(ok) ==
    /\ server.pc = "a_accept"
    /\ IF ok
       THEN LET c == server.accepted + 1 IN
            /\ c \in Conns
            /\ HandlerStarts(c, "windows")
            /\ server' = Handle(c)
       ELSE /\ server' = ServerAt(AcceptFailed)
            /\ UNCHANGED receiver
    /\ UNCHANGED beyondAccepting

\* ------------------------------------------------------------------
\* start_web_server_monitor, is_port_in_use, start_web_server
\* ------------------------------------------------------------------

MonitorAt(label) == [monitor EXCEPT !.pc = label]

\* while self.running:
MonitorWhile ==
    /\ monitor.pc = "m_while"
    /\ IF running
       THEN /\ monitor.ticks < MaxTicks
            /\ monitor' = [pc |-> "m_check", ticks |-> monitor.ticks + 1]
       ELSE monitor' = MonitorAt("m_done")
    /\ UNCHANGED <<web_server_thread, web_threads, web_port,
                   beyondSupervising>>

\* is_port_in_use(port): connect_ex(('127.0.0.1', port)) == 0: somebody
\* listens on the port, this process or another.
IsPortInUse(port) == port # "free"

\* if not self.is_port_in_use(self.web_port): self.start_web_server()
CheckPort ==
    /\ monitor.pc = "m_check"
    /\ monitor' = MonitorAt(IF IsPortInUse(web_port) THEN "m_sleep"
                            ELSE "m_start")
    /\ UNCHANGED <<web_server_thread, web_threads, web_port,
                   beyondSupervising>>

\* A thread counts as alive only once it serves.
IsAlive_serving(t) == t # 0 /\ web_threads[t] = "serving"

\* A thread object is never taken for alive.
IsAlive_never(t) == FALSE

\* self.web_server_thread and self.web_server_thread.is_alive()
IsAlive(t) == t # 0 /\ web_threads[t] # "dead"

\* start_web_server: returns when the thread is alive, else a new
\* run_server thread becomes self.web_server_thread.
StartWebServer ==
    /\ monitor.pc = "m_start"
    /\ IF IsAlive(web_server_thread)
       THEN UNCHANGED <<web_server_thread, web_threads>>
       ELSE /\ web_threads' = Append(web_threads, "starting")
            /\ web_server_thread' = Len(web_threads) + 1
    /\ monitor' = MonitorAt("m_sleep")
    /\ UNCHANGED <<web_port, beyondSupervising>>

\* time.sleep(60)
MonitorSleep ==
    /\ monitor.pc = "m_sleep"
    /\ monitor' = MonitorAt("m_while")
    /\ UNCHANGED <<web_server_thread, web_threads, web_port,
                   beyondSupervising>>

\* run_server: flask_app.run(host='0.0.0.0', port=self.web_port) binds
\* the port and serves; when the port is taken, or the bind fails
\* otherwise, it raises and the thread ends ("Web server error").
RunServer(t, ok) ==
    /\ t \in DOMAIN web_threads
    /\ web_threads[t] = "starting"
    /\ IF ok /\ web_port = "free"
       THEN /\ web_threads' = [web_threads EXCEPT ![t] = "serving"]
            /\ web_port' = "self"
       ELSE /\ web_threads' = [web_threads EXCEPT ![t] = "dead"]
            /\ UNCHANGED web_port
    /\ UNCHANGED <<monitor, web_server_thread, beyondSupervising>>

\* flask_app.run returns or raises while it serves: the thread ends and
\* the port is free again.
ServerEnds(t) ==
    /\ t \in DOMAIN web_threads
    /\ web_threads[t] = "serving"
    /\ web_threads' = [web_threads EXCEPT ![t] = "dead"]
    /\ web_port' = "free"
    /\ UNCHANGED <<monitor, web_server_thread, beyondSupervising>>

\* Another process binds port 4848, or gives it up.
OtherProcess ==
    /\ web_port \in {"free", "other"}
    /\ web_port' = IF web_port = "free" THEN "other" ELSE "free"
    /\ UNCHANGED <<monitor, web_server_thread, web_threads,
                   beyondSupervising>>

Threads == 1..(MaxTicks + 1)

\* The process with its listeners and their supervisor; the handlers
\* wait for their peers.
NextSupervisor ==
    \/ MonitorWhile
    \/ CheckPort
    \/ StartWebServer
    \/ MonitorSleep
    \/ \E t \in Threads, ok \in BOOLEAN : RunServer(t, ok)
    \/ \E t \in Threads : ServerEnds(t)
    \/ OtherProcess
    \/ \E ok \in BOOLEAN : StartFileServer(ok)
    \/ AcceptWhile
    \/ \E ok \in BOOLEAN : Accept(ok)
    \/ QuitApp

SpecSupervisor == Init /\ [][NextSupervisor]_vars

\* ------------------------------------------------------------------
\* The TCP transfer listener with its handler threads, next to the
\* discovery thread
\* ------------------------------------------------------------------

\* What a peer of the listener sends first: the header of a file of one
\* byte, or bytes that are no JSON document.
ServerDocs ==
    {doc \in Docs :
        /\ doc.len = 40
        /\ \/ doc.json = "garbage"
           \/ /\ HasKeys(doc)
              /\ doc.fields.filesize = IntValue(1)}

\* The discovery probe of a peer.
Probes ==
    {d \in Datagrams :
        /\ d.json = "object"
        /\ d.fields = [type |-> "discovery", device_name |-> "p"]}

\* The listener, its handlers and the discovery thread when nothing
\* fails: what remains is the waiting.
NextServer ==
    \/ \E ok \in BOOLEAN : StartFileServer(ok)
    \/ AcceptWhile
    \/ \E ok \in BOOLEAN : Accept(ok)
    \/ \E c \in Conns, doc \in ServerDocs : RecvHeader(c, doc, 40, TRUE)
    \/ \E c \in Conns, answer \in BOOLEAN : Policy(c, answer)
    \/ \E c \in Conns : OpenFile(c, TRUE)
    \/ \E c \in Conns : WhileTest(c)
    \/ \E c \in Conns, n \in {0, 1} : RecvBody(c, n, TRUE)
    \/ \E c \in Conns : WriteChunk(c, TRUE)
    \/ \E c \in Conns : NotifyReceived(c)
    \/ \E c \in Conns : SendRejected(c, TRUE)
    \/ \E c \in Conns : CloseSocket(c)
    \/ StartDiscovery(TRUE)
    \/ DiscoveryWhile
    \/ \E dgram \in Probes : RecvFrom(dgram, "10.0.0.2", TRUE)
    \/ Reply("10.0.0.1", TRUE)

\* The connections whose peers go on sending and whose prompt is
\* answered; the peer of connection 1 may send nothing more, at any
\* point, and its prompt may stay open.
Served == Conns \ {1}

\* Every thread runs: a statement that waits for nobody ends. Peers
\* connect and datagrams arrive again and again; the peers of the
\* connections in Served send (or close), and their prompts are answered.
ServerRuns ==
    /\ WF_vars(\E ok \in BOOLEAN : StartFileServer(ok))
    /\ WF_vars(AcceptWhile)
    /\ SF_vars(Accept(TRUE))
    /\ \A c \in Conns :
           /\ WF_vars(OpenFile(c, TRUE))
           /\ WF_vars(WhileTest(c))
           /\ WF_vars(WriteChunk(c, TRUE))
           /\ WF_vars(NotifyReceived(c))
           /\ WF_vars(SendRejected(c, TRUE))
           /\ WF_vars(CloseSocket(c))
    /\ \A c \in Served :
           /\ WF_vars(\E doc \in ServerDocs : RecvHeader(c, doc, 40, TRUE))
           /\ WF_vars(\E answer \in BOOLEAN : Policy(c, answer))
           /\ WF_vars(\E n \in {0, 1} : RecvBody(c, n, TRUE))
    /\ WF_vars(StartDiscovery(TRUE))
    /\ WF_vars(DiscoveryWhile)
    /\ WF_vars(\E dgram \in Probes : RecvFrom(dgram, "10.0.0.2", TRUE))
    /\ WF_vars(Reply("10.0.0.1", TRUE))

SpecServer == Init /\ [][NextServer]_vars /\ ServerRuns

\* The listener and its handlers with every failure: of accept, of a
\* read, of the file system, of the answer to the peer; and quit_app.
NextHandlers ==
    \/ \E ok \in BOOLEAN : StartFileServer(ok)
    \/ AcceptWhile
    \/ \E ok \in BOOLEAN : Accept(ok)
    \/ \E c \in Conns, doc \in ServerDocs, ok \in BOOLEAN :
           RecvHeader(c, doc, 40, ok)
    \/ \E c \in Conns, answer \in BOOLEAN : Policy(c, answer)
    \/ \E c \in Conns, ok \in BOOLEAN : OpenFile(c, ok)
    \/ \E c \in Conns : WhileTest(c)
    \/ \E c \in Conns, n \in {0, 1}, ok \in BOOLEAN : RecvBody(c, n, ok)
    \/ \E c \in Conns, ok \in BOOLEAN : WriteChunk(c, ok)
    \/ \E c \in Conns : NotifyReceived(c)
    \/ \E c \in Conns, ok \in BOOLEAN : SendRejected(c, ok)
    \/ \E c \in Conns : CloseSocket(c)
    \/ QuitApp

SpecHandlers == Init /\ [][NextHandlers]_vars

\* ------------------------------------------------------------------
\* The threads of the process and quit_app
\* ------------------------------------------------------------------

\* What one peer sends to the discovery socket: its probe, its response.
PeerDatagrams ==
    {d \in Datagrams :
        /\ d.json = "object"
        /\ d.fields \in {[type |-> "discovery", device_name |-> "p"],
                         [type |-> "response", device_name |-> "p",
                          ip |-> "10.0.0.2", port |-> 5001]}}

\* The three loops that test self.running, the threads that carry them,
\* and quit_app. recvfrom and accept return when a datagram or a
\* connection arrives, or raise.
NextThreads ==
    \/ \E ok \in BOOLEAN : StartDiscovery(ok)
    \/ DiscoveryWhile
    \/ \E dgram \in PeerDatagrams, ok \in BOOLEAN :
           RecvFrom(dgram, "10.0.0.2", ok)
    \/ \E ok \in BOOLEAN : Reply("10.0.0.1", ok)
    \/ Upsert
    \/ \E ok \in BOOLEAN : StartFileServer(ok)
    \/ AcceptWhile
    \/ \E ok \in BOOLEAN : Accept(ok)
    \/ MonitorWhile
    \/ CheckPort
    \/ StartWebServer
    \/ MonitorSleep
    \/ \E t \in Threads, ok \in BOOLEAN : RunServer(t, ok)
    \/ QuitApp

\* A thread that is started runs, and each of its statements ends, except
\* the calls that wait for a peer: recvfrom and accept have no timeout and
\* quit_app closes no socket, so they return only when a datagram or a
\* connection arrives.
ThreadsRun ==
    /\ WF_vars(\E ok \in BOOLEAN : StartDiscovery(ok))
    /\ WF_vars(DiscoveryWhile)
    /\ WF_vars(\E ok \in BOOLEAN : Reply("10.0.0.1", ok))
    /\ WF_vars(Upsert)
    /\ WF_vars(\E ok \in BOOLEAN : StartFileServer(ok))
    /\ WF_vars(AcceptWhile)
    /\ WF_vars(MonitorWhile)
    /\ WF_vars(CheckPort)
    /\ WF_vars(StartWebServer)
    /\ WF_vars(MonitorSleep)
    /\ WF_vars(\E t \in Threads, ok \in BOOLEAN : RunServer(t, ok))

SpecThreads == Init /\ [][NextThreads]_vars /\ ThreadsRun

\* ------------------------------------------------------------------
\* One transfer from end to end: send_file on one host, the handler of
\* connection 1 on the other, and the TCP byte stream between them
\* ------------------------------------------------------------------

\* The characters of a file name of the model.
NameLen(name) == IF name = "" THEN 0 ELSE 5

RECURSIVE Digits(_)
\* The decimal digits of n >= 0.
Digits(n) == IF n < 10 THEN 1 ELSE 1 + Digits(n \div 10)

\* len(json.dumps(file_info).encode()):
\* {"filename": "<name>", "filesize": <digits>}
JsonDumpsLen(info) == 30 + NameLen(info.filename) + Digits(info.filesize.val)

RECURSIVE BodyLen(_)
\* The body bytes among the writes w.
BodyLen(w) ==
    IF w = <<>> THEN 0
    ELSE (IF Head(w).kind = "body" THEN Head(w).len ELSE 0) + BodyLen(Tail(w))

\* What the sender has put at the start of the stream: the header it
\* wrote, or nothing yet.
SentDoc ==
    IF wire # <<>> /\ wire[1].kind = "header"
    THEN [json |-> "object", len |-> JsonDumpsLen(wire[1].fields),
          fields |-> wire[1].fields]
    ELSE [json |-> "garbage", len |-> 0, fields |-> <<>>]

\* The bytes written to the stream and not yet read by the handler.
InFlight ==
    IF client_socket[1].first = <<>>
    THEN SentDoc.len + BodyLen(wire)
    ELSE BodyLen(wire) - client_socket[1].pos

\* The sender has closed its end.
SenderClosed == connections # <<>> /\ connections[1] = "closed"

\* The file to send is there before send_file is called; nobody changes
\* it afterwards.
PrepareFile(n) ==
    /\ sender.pc = "idle"
    /\ sender.calls = 0
    /\ SourceChanges(n, FALSE)

\* The one call of send_file.
FirstSend ==
    /\ sender.calls = 0
    /\ StartSend

\* The peer's accept loop hands the connection to its handler.
Accepted1(p) ==
    /\ connections # <<>>
    /\ connections[1] # "created"
    /\ StartHandler(1, p)

\* The first recv(1024) returns bytes that are in flight, at least one
\* and as many as TCP delivers at once: a part of the header, the header,
\* or the header and body bytes behind it; b"" when the sender has closed
\* and nothing is left.
StreamRecvHeader(n, ok) ==
    /\ IF n = 0 THEN InFlight = 0 /\ SenderClosed
       ELSE /\ n <= InFlight
            /\ n \in {1, SentDoc.len, SentDoc.len + 1}
    /\ RecvHeader(1, SentDoc, n, ok)

\* recv(bufsize) of the body returns bytes that are in flight; b"" when
\* the sender has closed and nothing is left.
StreamRecvBody(n, ok) ==
    /\ IF n = 0 THEN InFlight = 0 /\ SenderClosed
       ELSE n <= InFlight
    /\ RecvBody(1, n, ok)

\* The lengths of the headers of the model, and one byte more.
HeaderReads ==
    {0, 1} \cup {JsonDumpsLen([filename |-> "a.txt",
                               filesize |-> IntValue(n)]) + d :
                     n \in Sizes, d \in {0, 1}}

NextStream ==
    \/ \E n \in Sizes : PrepareFile(n)
    \/ FirstSend
    \/ \E ok \in BOOLEAN : CreateSocket(ok)
    \/ \E ok \in BOOLEAN : Connect(ok)
    \/ StatHeader
    \/ \E ok \in BOOLEAN : SendHeader(ok)
    \/ OpenSource
    \/ StatTotal
    \/ WhileSent
    \/ ReadChunk
    \/ \E n \in ChunkLens, ok \in BOOLEAN : SendChunk(n, ok)
    \/ ReportSuccess
    \/ FinallyClose
    \/ \E p \in Platforms : Accepted1(p)
    \/ \E n \in HeaderReads, ok \in BOOLEAN : StreamRecvHeader(n, ok)
    \/ \E answer \in BOOLEAN : Policy(1, answer)
    \/ \E ok \in BOOLEAN : OpenFile(1, ok)
    \/ WhileTest(1)
    \/ \E n \in {0, 1, ChunkSize}, ok \in BOOLEAN : StreamRecvBody(n, ok)
    \/ \E ok \in BOOLEAN : WriteChunk(1, ok)
    \/ NotifyReceived(1)
    \/ \E ok \in BOOLEAN : SendRejected(1, ok)
    \/ CloseSocket(1)

SpecStream == Init /\ [][NextStream]_vars

\* ------------------------------------------------------------------
\* Two instances of the program: discover_devices, and the discovery
\* loop of each
\* ------------------------------------------------------------------

\* The address and the host name of the other instance.
PeerIp == "10.0.0.2"
PeerName == "p"

\* message = {'type': 'discovery', 'device_name': self.device_name}
DiscoveryMessage ==
    [json |-> "object",
     fields |-> [type |-> "discovery", device_name |-> device_name]]

\* discover_devices: the socket, the message {'type': 'discovery',
\* 'device_name': ...}, then sendto(data) with no address ("# Discovery
\* port removed"): a TypeError, printed. No datagram leaves.
DiscoverDevices ==
    /\ broadcasts < NumBroadcasts
    /\ broadcasts' = broadcasts + 1
    /\ UNCHANGED <<peer, net, beyondPairing>>

\* The discovery loop of the other instance takes a datagram: recvfrom,
\* json.loads, message['type'].
PeerRecvFrom(dgram, from) ==
    /\ peer.pc = "d_recv"
    /\ Dispatch(dgram) \in {"d_reply", "d_while"}
    /\ peer' = [pc |-> IF Dispatch(dgram) = "d_reply" THEN "d_reply"
                       ELSE "d_recv",
                message |-> dgram.fields, addr |-> from]
    /\ UNCHANGED <<net, broadcasts, beyondPairing>>

\* The other instance answers a discovery: the response of the code, with
\* its own host name and address, sent to where the discovery came from.
PeerReply(ok) ==
    /\ peer.pc = "d_reply"
    /\ net' = IF ok
              THEN net \cup {[to |-> peer.addr, from |-> PeerIp,
                              message |-> [Response(PeerIp) EXCEPT
                                              !.device_name = PeerName]]}
              ELSE net
    /\ peer' = [peer EXCEPT !.pc = "d_recv"]
    /\ UNCHANGED <<broadcasts, beyondPairing>>

\* recvfrom of this instance returns a datagram the other instance sent to
\* it.
Delivered(dgram, ip) ==
    /\ dgram.json = "object"
    /\ [to |-> ip, from |-> PeerIp, message |-> dgram.fields] \in net
    /\ RecvFrom(dgram, PeerIp, TRUE)

NextPair ==
    \/ DiscoverDevices
    \/ \E from \in LocalIps : PeerRecvFrom(DiscoveryMessage, from)
    \/ \E ok \in BOOLEAN : PeerReply(ok)
    \/ \E ok \in BOOLEAN : StartDiscovery(ok)
    \/ DiscoveryWhile
    \/ \E dgram \in Datagrams, ip \in LocalIps : Delivered(dgram, ip)
    \/ Upsert
    \/ QuitApp

SpecPair == Init /\ [][NextPair]_vars

\* ------------------------------------------------------------------
\* Everything that runs next to the peer table: the discovery loop,
\* discover_devices, the monitor, quit_app
\* ------------------------------------------------------------------

\* What the peers of one address send: a discovery, responses from two
\* ports, a response without port, bytes that are no JSON.
TableDatagrams ==
    {d \in Datagrams :
        \/ d.json = "garbage"
        \/ /\ d.json = "object"
           /\ "device_name" \in DOMAIN d.fields
           /\ d.fields.device_name = "p"
           /\ "ip" \in DOMAIN d.fields => d.fields.ip = "10.0.0.2"
           /\ "type" \in DOMAIN d.fields
           /\ d.fields.type \in {"discovery", "response"}}

NextTable ==
    \/ \E ok \in BOOLEAN : StartDiscovery(ok)
    \/ DiscoveryWhile
    \/ \E dgram \in TableDatagrams, ok \in BOOLEAN :
           RecvFrom(dgram, "10.0.0.2", ok)
    \/ \E ok \in BOOLEAN : Reply("10.0.0.1", ok)
    \/ Upsert
    \/ DiscoverDevices
    \/ MonitorWhile
    \/ CheckPort
    \/ StartWebServer
    \/ MonitorSleep
    \/ QuitApp

SpecTable == Init /\ [][NextTable]_vars

\* ------------------------------------------------------------------
\* Vocabulary of the properties
\* ------------------------------------------------------------------

Done(t) == pc[t] = "done"
Calls(o) == {t \in Requests : op[t] = o}
CallsOn(o, id) == {t \in Calls(o) : file_id[t] = id}
Succeeded(T) == {t \in T : Done(t) /\ status_code[t] = 200}
\* The upload requests that staged a file.
Staged == Succeeded(Calls("upload"))
\* Request t takes a step.
Steps(t) == pc'[t] # pc[t]
\* No two upload requests carry the same filename.
DistinctNames ==
    \A t, u \in Calls("upload") :
        (t # u /\ filename[t] # "" /\ filename[u] # "") =>
            filename[t] # filename[u]

\* C1: among concurrent fetch(id) calls on a pending id exactly one gets
\* 200 and every other one gets 404; no call ends in another outcome.
\* (Stated for runs without remove calls and without shared file names,
\* so that only fetch calls compete for an entry.)
C1_ExactlyOneFetchSucceeds ==
    (Calls("remove") = {} /\ DistinctNames) =>
        \A id \in Ids :
            LET F == {t \in CallsOn("download", id) : Done(t)} IN
            /\ \A t \in F : status_code[t] \in {200, 404}
            /\ Cardinality(Succeeded(F)) <= 1
            /\ ( /\ F = CallsOn("download", id)
                 /\ \E t \in F : status_code[t] # 404 )
               => Cardinality(Succeeded(F)) = 1

\* C2: among a concurrent mix of fetch(id) and remove(id) calls that has a
\* remove in it, at most one call takes the entry out (gets 200) and every
\* other call gets 404.
C2_FirstRemoveWins ==
    DistinctNames =>
        \A id \in Ids :
            LET M == {t \in CallsOn("download", id) \cup CallsOn("remove", id) :
                         Done(t)} IN
            CallsOn("remove", id) # {} =>
                /\ Cardinality(Succeeded(M)) <= 1
                /\ \A t \in M : status_code[t] \in {200, 404}

\* C3: the history never holds more TransferRecords than ids were staged.
C3_AtMostOneRecordPerStagedId ==
    Len(transfer_history) <= Cardinality(Staged)

\* C4: a TransferRecord is in the history if and only if a fetch delivered
\* the bytes: once no fetch is between its append and its answer, the
\* records are as many as the fetches answered with 200.  (Stated for runs
\* with a single fetch call, so that no two fetches compete.)
C4_RecordIffDelivered ==
    ( /\ Cardinality(Calls("download")) <= 1
      /\ \A t \in Calls("download") : pc[t] \notin {"d_del", "d_send"} )
    => Len(transfer_history) = Cardinality(Succeeded(Calls("download")))

\* C5: a successful fetch(id) returns exactly the bytes that were staged
\* under id, whatever was staged or removed under other ids.  (Stated for
\* the states in which every upload has succeeded.)
C5_RoundTrip ==
    (\A u \in Calls("upload") : u \in Staged) =>
    \A t \in Succeeded(Calls("download")) :
        \E u \in Calls("upload") :
            /\ file_id[u] = file_id[t]
            /\ resp_body[t] = content[u]

\* The entries of listPending() that carry id.
EntriesOf(id) == {k \in DOMAIN listPending : listPending[k].id = id}

\* C6: after a successful stage the returned id is in listPending()
\* exactly once, with status pending and size = len(bytes), as long as the
\* entry is pending.
C6_StagedSizeIsLenBytes ==
    \A t \in Staged :
        file_id[t] \in DOMAIN pending_files =>
            /\ Cardinality(EntriesOf(file_id[t])) = 1
            /\ pending_files[file_id[t]].status = "pending"
            /\ pending_files[file_id[t]].size = Len(content[t])

\* C7: after k concurrent stage calls that all succeeded, and no fetch or
\* remove, the pending set has exactly k entries with k distinct ids, each
\* with the name and the size of its own call.
C7_ConcurrentStagesAllKept ==
    ( /\ Calls("download") \cup Calls("remove") = {}
      /\ \A t \in Calls("upload") : t \in Staged )
    => /\ DOMAIN pending_files = {file_id[t] : t \in Staged}
       /\ Cardinality(DOMAIN pending_files) = Cardinality(Staged)
       /\ \A t \in Staged :
              /\ pending_files[file_id[t]].name = filename[t]
              /\ pending_files[file_id[t]].size = Len(content[t])

\* C8: a successful remove(id) deletes the entry and its backing storage
\* and never touches the history; a fetch(id) or remove(id) that looks the
\* id up after it answers 404.
C8_RemoveStep ==
    \A t \in Requests :
        (Steps(t) /\ op'[t] = "remove") =>
            /\ transfer_history' = transfer_history
            /\ (pc[t] \in {"r_exists", "r_unlink"} /\ pc'[t] = "r_del") =>
                   frame[t].file_info.path \notin DOMAIN disk'
            /\ (Done(t)' /\ status_code'[t] = 200) =>
                   /\ file_id[t] \in DOMAIN pending_files
                   /\ file_id[t] \notin DOMAIN pending_files'
C8_Gone ==
    \A t \in Succeeded(Calls("remove")) :
        file_id[t] \notin DOMAIN pending_files
C8_AfterRemove ==
    \A t \in Succeeded(Calls("remove")), u \in Requests :
        ( /\ pc[u] = "idle" /\ Steps(u)
          /\ op'[u] \in {"download", "remove"}
          /\ file_id'[u] = file_id[t] )
        => (Done(u)' /\ status_code'[u] = 404)
C8_RemoveDeletesWithoutRecord ==
    [](C8_Gone) /\ [][C8_RemoveStep /\ C8_AfterRemove]_vars

\* C8 witness: a remove answered 200 and a later fetch or remove of the same
\* id answered 404, while a record-free history stands next to a staged id.
C8_Witness ==
    \E t \in Succeeded(Calls("remove")), u \in Requests :
        /\ t < u /\ Done(u) /\ op[u] \in {"download", "remove"}
        /\ file_id[u] = file_id[t] /\ status_code[u] = 404
        /\ disk = <<>>
        /\ transfer_history = <<>>

\* C9: fetch(id) and remove(id) on an id that is not pending answer 404 and
\* leave the pending set, the history and the storage as they are.
C9_NotFoundStep ==
    \A t \in Requests :
        ( /\ pc[t] = "idle" /\ Steps(t)
          /\ op'[t] \in {"download", "remove"}
          /\ file_id'[t] \notin DOMAIN pending_files )
        => /\ Done(t)' /\ status_code'[t] = 404
           /\ pending_files' = pending_files
           /\ transfer_history' = transfer_history
           /\ disk' = disk
C9_UnknownIdIsNotFound == [][C9_NotFoundStep]_vars

\* C9 witness: a fetch and a remove of unknown ids were answered 404 while
\* another file is pending with its storage in place.
C9_Witness ==
    \E t \in Calls("download"), u \in Calls("remove") :
        /\ Done(t) /\ status_code[t] = 404
        /\ Done(u) /\ status_code[u] = 404
        /\ \E k \in DOMAIN pending_files :
               /\ k \notin {file_id[t], file_id[u]}
               /\ pending_files[k].path \in DOMAIN disk

\* C10: an upload that fails (400 for a missing field or an empty filename,
\* or an error while the bytes are persisted) creates no entry: none of its
\* steps changes the pending set or the history.
C10_FailStep ==
    \A t \in Requests :
        (Steps(t) /\ op'[t] = "upload" /\ status_code'[t] # 200) =>
            /\ pending_files' = pending_files
            /\ transfer_history' = transfer_history
C10_NoEntry ==
    \A t \in Calls("upload") :
        (Done(t) /\ status_code[t] # 200) =>
            \A k \in DOMAIN pending_files :
                pending_files[k].id # file_id[t]
C10_FailedUploadLeavesNoEntry == [](C10_NoEntry) /\ [][C10_FailStep]_vars

\* C10 witness: uploads answered 400 and 500 next to a pending entry.
C10_Witness ==
    /\ \E t \in Calls("upload") : Done(t) /\ status_code[t] = 400
    /\ \E t \in Calls("upload") : Done(t) /\ status_code[t] = 500
    /\ pending_files # <<>>

\* C11: listPending() and listHistory() return point-in-time copies: what
\* the caller serialises is the registry's content of the instant of the
\* call, whatever stage, fetch or remove runs before the serialisation.
C11_Step ==
    \A t \in Requests :
        (pc[t] = "l_json" /\ Steps(t)) =>
            resp_body'[t] = frame[t].json_arg.value
C11_ListsAreSnapshots == [][C11_Step]_vars

\* ------------------------------------------------------------------
\* Vocabulary of the claims about the TCP receive handler
\* ------------------------------------------------------------------

Notified(what) == \E i \in 1..Len(notifications) : notifications[i] = what

\* The declared size, when the header carries an integer.
Declared(c) == handler[c].file_info.filesize.val

\* The last read of the body found the connection closed by the peer.
BodyEof(c) ==
    /\ client_socket[c].last_recv.phase = "body"
    /\ client_socket[c].last_recv.n = 0
    /\ handler[c].error # "recv"

\* C12: when the sender closes the connection after M < N body bytes of
\* a declared filesize N, the handler ends with a failure and without
\* the success notification.
C12_ShortRead(c) == BodyEof(c) /\ handler[c].received < Declared(c)
C12_ShortReadIsFailure ==
    \A c \in Conns :
    (C12_ShortRead(c) /\ handler[c].pc = "h_done") =>
        (handler[c].error # "none" /\ ~Notified("completed"))

\* The first frame has been read and is a TransferHeader: one JSON object
\* with a filename and a filesize that is a non-negative integer.
FrameRead(c) == client_socket[c].first # <<>>
IsTransferHeader(doc, n) ==
    /\ JsonLoads(doc, n)
    /\ HasKeys(doc)
    /\ doc.fields.filesize.type = "int"
    /\ doc.fields.filesize.val >= 0
BadFrame(c) ==
    /\ FrameRead(c)
    /\ ~IsTransferHeader(client_socket[c].first[1], client_socket[c].first[2])

\* C13: when the first frame is no TransferHeader with filename and
\* filesize, the handler aborts: no further read, no acceptance policy, no
\* destination file, no success notification, and the connection is
\* closed.
C13_BadFrameAborts ==
    \A c \in Conns :
    BadFrame(c) =>
        /\ handler[c].pc \in {"h_finally", "h_done"}
        /\ handler[c].error = "header"
        /\ client_socket[c].last_recv.phase = "header"
        /\ downloads = <<>>
        /\ notifications = <<>>
        /\ handler[c].pc = "h_done" => client_socket[c].closed

\* C14: when the acceptance policy rejects, the handler writes REJECTED
\* (unless that write itself fails) and closes, with no destination file,
\* no read of the body and no success notification; when it accepts,
\* REJECTED is never written.
C14_Rejected(c) == handler[c].result = "False"
C14_Answered(c) ==
    client_socket[c].sent = <<"REJECTED">> \/ handler[c].error = "send"
C14_RejectedIsAnswered ==
    \A c \in Conns :
    /\ C14_Rejected(c) =>
           /\ handler[c].pc \in {"h_reject", "h_finally", "h_done"}
           /\ downloads = <<>>
           /\ client_socket[c].last_recv.phase = "header"
           /\ ~Notified("completed")
           /\ handler[c].pc # "h_reject" => C14_Answered(c)
           /\ handler[c].pc = "h_done" => client_socket[c].closed
    /\ ~C14_Rejected(c) => client_socket[c].sent = <<>>
C14_Witness ==
    \E c \in Conns :
    /\ C14_Rejected(c)
    /\ handler[c].pc = "h_done"
    /\ client_socket[c].sent = <<"REJECTED">>
    /\ client_socket[c].closed

\* The policy accepted a TransferHeader (filesize a non-negative integer).
Accepted(c) ==
    /\ handler[c].result = "True"
    /\ handler[c].file_info.filesize.type = "int"
    /\ Declared(c) >= 0

\* The bytes 0 .. n-1 of the body stream, in order.
Stream(n) == IF n = 0 THEN <<>> ELSE <<[from |-> 0, len |-> n]>>

\* The destination file, once it is open.
Destination(c) == downloads[handler[c].file_info.filename]

\* C15: after the acceptance of a TransferHeader every read of the body
\* asks for at most min(8192, filesize - received) bytes, received never
\* exceeds filesize, the file holds the chunks in arrival order, no read
\* is made once received equals filesize, and a complete transfer leaves
\* exactly filesize bytes in the file.
C15_BodyLoop ==
    \A c \in Conns :
    Accepted(c) =>
        /\ handler[c].received <= Declared(c)
        /\ client_socket[c].pos <= Declared(c)
        /\ client_socket[c].last_recv.phase = "body" =>
               LET before == client_socket[c].pos - client_socket[c].last_recv.n
               IN  /\ client_socket[c].last_recv.bufsize >= 1
                   /\ client_socket[c].last_recv.bufsize <= ChunkSize
                   /\ client_socket[c].last_recv.bufsize <= Declared(c) - before
                   /\ client_socket[c].last_recv.n
                          <= client_socket[c].last_recv.bufsize
        /\ handler[c].pc = "h_recv" => handler[c].received < Declared(c)
        /\ handler[c].file_info.filename \in DOMAIN downloads =>
               Destination(c) = Stream(handler[c].received)
        /\ (handler[c].pc \in {"h_notify", "h_finally", "h_done"}
              /\ handler[c].error = "none" /\ ~BodyEof(c)) =>
               /\ handler[c].received = Declared(c)
               /\ Destination(c) = Stream(Declared(c))
C15_Witness ==
    \E c \in Conns :
    /\ Accepted(c)
    /\ handler[c].pc = "h_done"
    /\ handler[c].error = "none"
    /\ Declared(c) = ChunkSize + 1
    /\ client_socket[c].reads = 3
    /\ Destination(c) = Stream(ChunkSize + 1)

\* ------------------------------------------------------------------
\* Vocabulary of the claims about the TCP sender
\* ------------------------------------------------------------------

\* The body segments written to the connection, and their number of bytes.
BodyWrites == {i \in 1..Len(wire) : wire[i].kind = "body"}
RECURSIVE BytesUpTo(_)
BytesUpTo(i) ==
    IF i = 0 THEN 0
    ELSE BytesUpTo(i - 1) + (IF wire[i].kind = "body" THEN wire[i].len ELSE 0)
BodyBytes == BytesUpTo(Len(wire))

\* C16: after the connect, the first write is the one header frame with
\* the file's name and size, the body follows in file order in chunks of
\* at most 8192 bytes, and no body byte beyond the declared filesize is
\* written.
C16_HeaderThenBody ==
    wire # <<>> =>
        /\ wire[1].kind = "header"
        /\ wire[1].fields.filename = "a.txt"
        /\ \A i \in 2..Len(wire) :
               /\ wire[i].kind = "body"
               /\ wire[i].len <= ChunkSize
               /\ i > 2 => wire[i].from >= wire[i-1].from + wire[i-1].len
               /\ wire[i].from + wire[i].len <= wire[1].fields.filesize.val

\* C17: send_file reports success only if the body bytes written to the
\* connection are as many as the header declares.
C17_SuccessMeansAllSent ==
    sender.reported = "success" =>
        BodyBytes = wire[1].fields.filesize.val

\* A call of send_file begins in this step.
CallBegins == sender'.calls = sender.calls + 1

\* C18: a call for a path that does not exist ends at once with "not
\* found", with no socket created; a call whose connect fails writes no
\* header and no body byte; neither reports success.
C18_NotFoundStep ==
    (CallBegins /\ ~source.exists) =>
        /\ sender'.pc = "s_done"
        /\ sender'.reported = "not_found"
        /\ sender'.client_socket = 0
        /\ connections' = connections
C18_ConnectFailed ==
    sender.error = "connect" =>
        /\ sender.pc \in {"s_finally", "s_done"}
        /\ wire = <<>>
        /\ sender.reported = "error"
C19_Aborted ==
    sender.error = "send" =>
        /\ sender.pc \in {"s_finally", "s_done"}
        /\ sender.reported = "error"
C19_FromStart ==
    /\ Len(wire) >= 1 => wire[1].kind = "header"
    /\ Len(wire) >= 2 => wire[2].kind = "body" /\ wire[2].from = 0
C19_Step ==
    /\ sender.error = "send" => wire' = wire
    /\ CallBegins =>
           /\ sender'.sent = 0
           /\ sender'.tell = 0
           /\ sender'.file_info = NoHeader
C19_WriteFailureAborts ==
    [](C19_Aborted /\ C19_FromStart) /\ [][C19_Step]_vars
C19_Witness ==
    /\ sender.calls = 2
    /\ sender.pc = "s_done"
    /\ sender.error = "send"
    /\ connections = <<"closed", "closed">>
    /\ Len(wire) = 2

\* C20: when send_file has returned, every socket it created is closed,
\* whichever way the call ended.
Returned == sender.pc \in {"idle", "s_done"}
C20_ClosedOnReturn ==
    Returned => \A i \in 1..Len(connections) : connections[i] = "closed"
C20_Witness ==
    /\ sender.calls = 2
    /\ sender.pc = "s_done"
    /\ sender.error = "send"
    /\ wire = <<>>
    /\ connections = <<"closed", "closed">>

\* ------------------------------------------------------------------
\* Vocabulary of the claims about the discovery service
\* ------------------------------------------------------------------

\* C21: the reply to a discovery datagram is one response sent to the
\* datagram's sender that carries device_name, ip and port; handling the
\* datagram leaves the peer table alone.
C21_ReplyStep ==
    discovery.pc = "d_reply" /\ discovery'.pc # "d_reply" =>
        /\ devices' = devices
        /\ Len(outbox') <= Len(outbox) + 1
        /\ Len(outbox') = Len(outbox) + 1 =>
               LET reply == outbox'[Len(outbox')] IN
               /\ reply.to = discovery.addr
               /\ reply.message.type = "response"
               /\ {"device_name", "ip", "port"}
                      \subseteq DOMAIN reply.message
C21_DiscoveryIsAnswered == [][C21_ReplyStep]_vars

\* The response in hand is stored in this step.
Upserts ==
    /\ discovery.pc = "d_upsert"
    /\ discovery'.pc # "d_upsert"
    /\ {"ip", "port", "device_name"} \subseteq DOMAIN discovery.message

\* C22: processing a response leaves one Device under its key "ip:port",
\* with the name, ip and port of that response and the time of its
\* processing; the Devices under all other keys stay as they are, so a key
\* holds the data of the response processed last for it.
C22_UpsertStep ==
    Upserts =>
        LET m == discovery.message
            key == <<m.ip, m.port>>
        IN  /\ DOMAIN devices' = DOMAIN devices \cup {key}
            /\ devices'[key] = [name |-> m.device_name, ip |-> m.ip,
                                port |-> m.port, last_seen |-> clock]
            /\ \A k \in DOMAIN devices \ {key} : devices'[k] = devices[k]
C22_Keyed ==
    \A k \in DOMAIN devices :
        /\ k = <<devices[k].ip, devices[k].port>>
        /\ devices[k].last_seen < clock
        /\ \A j \in DOMAIN devices :
               devices[j].last_seen = devices[k].last_seen => j = k
C22_UpsertByKey == [](C22_Keyed) /\ [][C22_UpsertStep]_vars
C22_Witness ==
    /\ clock = 4
    /\ Cardinality(DOMAIN devices) = 2
    /\ \E k \in DOMAIN devices :
           devices[k].last_seen = 3 /\ devices[k].name = "q"

\* A datagram that is no JSON object or has no type (message <<>> or
\* without type), a response that lacks a field, or another type.
Malformed(m) ==
    \/ "type" \notin DOMAIN m
    \/ m.type \notin {"discovery", "response"}
    \/ /\ m.type = "response"
       /\ ~({"ip", "port", "device_name"} \subseteq DOMAIN m)

\* A datagram is received in this step.
Receives == discovery'.received = discovery.received + 1

\* C23: a malformed datagram, or one of another type, is dropped: the peer
\* table stays as it is, nothing is sent, and the loop is back at its test
\* to receive the next datagram; no datagram ends the loop.
C23_DropStep ==
    /\ (Receives /\ Malformed(discovery'.message)) =>
           /\ discovery'.pc \in {"d_while", "d_upsert"}
           /\ devices' = devices /\ outbox' = outbox
    /\ (discovery.pc = "d_upsert" /\ discovery'.pc # "d_upsert"
          /\ Malformed(discovery.message)) =>
           /\ discovery'.pc = "d_while"
           /\ devices' = devices /\ outbox' = outbox
C23_LoopGoesOn ==
    /\ discovery.pc = "d_reply" => ~Malformed(discovery.message)
    /\ (discovery.pc = "d_done" /\ running) => discovery.received = 0
C23_MalformedIsDropped == [](C23_LoopGoesOn) /\ [][C23_DropStep]_vars
C23_Witness ==
    /\ discovery.received = 2
    /\ discovery.pc = "d_recv"
    /\ Malformed(discovery.message)
    /\ "type" \in DOMAIN discovery.message
    /\ Cardinality(DOMAIN devices) = 1

\* ------------------------------------------------------------------
\* Vocabulary of the claims about the listeners and their supervisor
\* ------------------------------------------------------------------

\* A tick of the supervisor ends: the monitor goes to sleep.
TickEnds == monitor.pc \in {"m_check", "m_start"} /\ monitor'.pc = "m_sleep"

\* A step of the supervisor.
MonitorStep == monitor' # monitor

\* server_thread has ended: nothing accepts TCP connections.
TcpDown == server.pc = "a_done"

\* A thread of the web server is alive.
WebAlive == \E t \in DOMAIN web_threads : web_threads[t] # "dead"

\* C24: while the process is running, a tick of the supervisor starts
\* each managed listener whose port is not bound: the HTTP listener has a
\* live thread when the tick that found its port free ends, and a TCP
\* transfer listener that is down when the tick ends is started by it.
C24_TickStep ==
    (TickEnds /\ running) =>
        /\ monitor.pc = "m_start" => WebAlive'
        /\ TcpDown => server'.pc # "a_done"
C24_TickStartsListeners == [][C24_TickStep]_vars

\* C25: the supervisor never stops or replaces a listener: a tick at
\* which the port is bound changes nothing but the monitor's position, no
\* step of the supervisor ends a thread of the web server, frees the port
\* or touches the TCP listener, and self.web_server_thread is replaced
\* only when the thread it names is dead.
C25_MonitorStep ==
    MonitorStep =>
        /\ web_port' = web_port
        /\ server' = server
        /\ \A t \in DOMAIN web_threads :
               t \in DOMAIN web_threads' /\ web_threads'[t] = web_threads[t]
        /\ web_server_thread' # web_server_thread =>
               (web_server_thread # 0 =>
                    web_threads[web_server_thread] = "dead")
        /\ (monitor.pc = "m_check" /\ web_port # "free") =>
               /\ monitor'.pc = "m_sleep"
               /\ UNCHANGED <<web_server_thread, web_threads>>
C25_NeverStopsListener == [][C25_MonitorStep]_vars
C25_Witness ==
    /\ monitor.pc = "m_sleep"
    /\ monitor.ticks = 2
    /\ web_port = "self"
    /\ web_server_thread = 1
    /\ web_threads = <<"serving">>
    /\ server.pc = "a_accept"

\* The loops have ended: their threads have left the while statement.
DiscoveryEnded == discovery.pc = "d_done"
AcceptEnded == server.pc = "a_done"
MonitorEnded == monitor.pc = "m_done"

\* C26: once running is False, the discovery receive loop, the TCP accept
\* loop and the supervisor loop each end, whether or not a datagram or a
\* connection arrives afterwards, and running never becomes True again.
C26_LoopsTerminate ==
    /\ (~running) ~> (DiscoveryEnded /\ AcceptEnded /\ MonitorEnded)
    /\ [][~running => ~running']_vars

\* ------------------------------------------------------------------
\* Vocabulary of the claims about the handler threads
\* ------------------------------------------------------------------

\* The handler of connection c waits: for the header, at the acceptance
\* prompt, or for body bytes.
Blocked(c) == handler[c].pc \in {"h_header", "h_policy", "h_recv"}

\* The transfer of connection c is complete: the handler has returned
\* after the success notification, with every declared byte received.
Completed(c) ==
    /\ handler[c].pc = "h_done"
    /\ handler[c].error = "none"
    /\ handler[c].result = "True"
    /\ handler[c].received = Declared(c)

\* The accept loop has accepted every connection of the run, or has
\* ended.
AcceptedAll == server.accepted = NumConns \/ server.pc = "a_done"
\* Every handler of a connection in Served has returned.
ServedAll ==
    \A c \in Served : c <= server.accepted => handler[c].pc = "h_done"
\* The discovery loop has taken every datagram of the run, or has ended.
ReceivedAll ==
    discovery.received = MaxDatagrams \/ discovery.pc = "d_done"

\* C27: while the handler of a connection is blocked (waiting for the
\* header, at the acceptance prompt, or for body bytes), the accept loop
\* still accepts the other connections, the other handlers still run to
\* their end and the discovery loop still takes its datagrams.
C27_BlockedBlocksNobody ==
    Blocked(1) ~>
        (~Blocked(1) \/ (AcceptedAll /\ ServedAll /\ ReceivedAll))
C27_Witness ==
    /\ Blocked(1)
    /\ handler[1].pc = "h_policy"
    /\ server.accepted = 2
    /\ Completed(2)
    /\ discovery.received = 2

\* A step of the handler of connection c that raises, or that follows
\* its exception (the except clause, the finally clause).
ErrorStep(c) ==
    /\ handler'[c] # handler[c]
    /\ handler[c].error # "none" \/ handler'[c].error # "none"

\* An iteration of the accept loop fails: accept raises.
AcceptFails ==
    /\ server.pc = "a_accept"
    /\ server' # server
    /\ server'.accepted = server.accepted

\* C28: an error inside the handler of one connection, or inside one
\* iteration of the accept loop, touches that connection only: no other
\* handler, no other socket, no file and no notification changes, and the
\* accept loop ends only when the process is no longer running (or when
\* it could never listen).
C28_Step ==
    /\ \A c \in Conns :
           ErrorStep(c) =>
               /\ \A d \in Conns \ {c} :
                      /\ handler'[d] = handler[d]
                      /\ client_socket'[d] = client_socket[d]
               /\ UNCHANGED <<downloads, notifications, server>>
    /\ AcceptFails =>
           /\ server'.pc = "a_while"
           /\ UNCHANGED receiver
    /\ (server.pc # "a_done" /\ server'.pc = "a_done") =>
           (server.pc = "idle" \/ ~running)
C28_ErrorsAreContained == [][C28_Step]_vars
C28_Witness ==
    /\ handler[1].pc = "h_done"
    /\ handler[1].error = "write"
    /\ client_socket[1].closed
    /\ Completed(2)
    /\ running
    /\ server.pc = "a_accept"

\* ------------------------------------------------------------------
\* Vocabulary of the claims about one transfer from end to end
\* ------------------------------------------------------------------

\* send_file has written its header and every byte of the body the header
\* declares, and has reported success.
SentWhole ==
    /\ sender.reported = "success"
    /\ wire # <<>>
    /\ wire[1].kind = "header"
    /\ BodyLen(wire) = wire[1].fields.filesize.val

\* The handler has returned, its acceptance policy has not rejected the
\* transfer, and nothing failed on the receiving host (no read, open or
\* write raised).
ReceivedWilling ==
    /\ handler[1].pc = "h_done"
    /\ handler[1].result # "False"
    /\ handler[1].error \notin {"recv", "open", "write"}

\* C29: when send_file has written its header and the N bytes of the body
\* without error and the receiver accepts, the first read of the handler
\* is exactly the header (the whole of it and no body byte), the handler
\* parses the header that was sent, and the destination file holds
\* exactly the N bytes of the body in order.
C29_EndToEnd ==
    (SentWhole /\ ReceivedWilling) =>
        /\ client_socket[1].first = <<SentDoc, SentDoc.len>>
        /\ handler[1].file_info = wire[1].fields
        /\ "a.txt" \in DOMAIN downloads
        /\ downloads["a.txt"] = Stream(wire[1].fields.filesize.val)

\* C30: when the acceptance policy of the receiver rejects the transfer
\* (the handler answers REJECTED and closes), send_file does not report
\* success for that connection.
C30_RejectedIsNoSuccess ==
    (/\ C14_Rejected(1)
     /\ client_socket[1].sent = <<"REJECTED">>
     /\ client_socket[1].closed) => sender.reported # "success"

\* ------------------------------------------------------------------
\* Vocabulary of the claims about two instances
\* ------------------------------------------------------------------

\* The other instance has answered a discovery of this instance, and this
\* instance has taken the response and is through with it.
RoundTrip ==
    /\ discovery.pc \in {"d_while", "d_recv", "d_done"}
    /\ discovery.addr = PeerIp
    /\ \E d \in net : d.message = discovery.message

HandlerBegins(c) == handler[c].pc = "idle" /\ handler'[c].pc # "idle"

\* C32: once running is False, the TCP listener starts no handler: a
\* connection that arrives afterwards is not handed to
\* handle_file_transfer.
C32_Step == ~running => \A c \in Conns : ~HandlerBegins(c)
C32_NoHandlerAfterQuit == [][C32_Step]_vars

\* C33: quit_app does not interrupt a handler that runs: the step that
\* sets running to False changes nothing of any handler, socket or file,
\* and with running False the body loop still goes on while bytes are
\* missing and ends only when all are received, when the peer closes or
\* when a call raises, as it does while the process is running.
C33_Step ==
    /\ running' # running => UNCHANGED receiver
    /\ \A c \in Conns :
           (~running /\ handler[c].pc = "h_while" /\ handler'[c] # handler[c]
              /\ handler[c].file_info.filesize.type = "int") =>
               handler'[c].pc = IF handler[c].received < Declared(c)
                                THEN "h_recv" ELSE "h_notify"
C33_Untouched ==
    \A c \in Conns :
        (~running /\ Accepted(c) /\ handler[c].pc = "h_done"
           /\ handler[c].error = "none" /\ ~BodyEof(c)) =>
            /\ handler[c].received = Declared(c)
            /\ client_socket[c].closed
C33_QuitLeavesHandlers == [](C33_Untouched) /\ [][C33_Step]_vars
C33_Witness ==
    /\ ~running
    /\ server.pc = "a_done"
    /\ handler[1].pc = "h_recv"
    /\ Completed(2)

\* ------------------------------------------------------------------
\* Vocabulary of the claims about the history
\* ------------------------------------------------------------------

\* a is a prefix of b.
IsPrefix(a, b) == Len(a) <= Len(b) /\ SubSeq(b, 1, Len(a)) = a

\* C34: the transfer history is append-only: in every step of stage,
\* fetch, remove and the list routes the history before the step is a
\* prefix of the history after it, so no record is removed, reordered or
\* modified.
C34_Step == IsPrefix(transfer_history, transfer_history')
C34_HistoryAppendOnly == [][C34_Step]_vars
C34_Witness ==
    /\ Len(transfer_history) = 2
    /\ \E t \in Requests : op[t] = "upload" /\ Done(t)

\* C35: the set of keys of the peer table never shrinks: no step of the
\* discovery loop, of discover_devices, of the monitor or of quit_app
\* removes a Device.
C35_Step == DOMAIN devices \subseteq DOMAIN devices'
C35_PeersStayListed == [][C35_Step]_vars
C35_Witness ==
    /\ Cardinality(DOMAIN devices) = 2
    /\ discovery.received = MaxDatagrams
    /\ "port" \notin DOMAIN discovery.message
    /\ discovery.pc = "d_while"
    /\ broadcasts >= 1
    /\ monitor.ticks >= 1
    /\ ~running

\* The peer sent a header document longer than one frame, and the first
\* read has returned.
LongHeader(c) ==
    /\ FrameRead(c)
    /\ client_socket[c].first[1].json = "object"
    /\ client_socket[c].first[1].len > HeaderFrame

\* C36: a transfer whose header JSON is longer than 1024 bytes is never
\* accepted: the one bounded read returns at most 1024 bytes of it, they
\* fail to parse, the handler aborts without consulting the policy,
\* without a destination file and without a further read, and closes.
C36_LongHeaderRefused ==
    \A c \in Conns :
    LongHeader(c) =>
        /\ client_socket[c].first[2] <= HeaderFrame
        /\ handler[c].pc \in {"h_finally", "h_done"}
        /\ handler[c].error = "header"
        /\ handler[c].result = "unbound"
        /\ client_socket[c].last_recv.phase = "header"
        /\ downloads = <<>>
        /\ notifications = <<>>
        /\ handler[c].pc = "h_done" => client_socket[c].closed
C36_Witness ==
    \E c \in Conns :
    /\ LongHeader(c)
    /\ HasKeys(client_socket[c].first[1])
    /\ client_socket[c].first[1].fields.filesize = IntValue(1)
    /\ client_socket[c].first[2] = HeaderFrame
    /\ handler[c].pc = "h_done"
    /\ client_socket[c].closed

\* The number of success notifications issued so far.
Successes ==
    Cardinality({i \in 1..Len(notifications) :
                     notifications[i] = "completed"})

\* The handler of connection c has left the accepted branch without an
\* exception.
LeftAccepted(c) ==
    /\ handler[c].pc \in {"h_finally", "h_done"}
    /\ handler[c].result = "True"
    /\ handler[c].error = "none"

\* C37: the receive handler closes the connection on every exit path,
\* and the success notification is issued exactly once per handler that
\* leaves the accepted branch without an exception, never while the body
\* loop is still running.
C37_ClosedAndNotifiedOnce ==
    /\ \A c \in Conns : handler[c].pc = "h_done" => client_socket[c].closed
    /\ \A c \in Conns :
           client_socket[c].closed => handler[c].pc = "h_done"
    /\ Successes = Cardinality({c \in Conns : LeftAccepted(c)})
C37_Witness ==
    \E c \in Conns :
    /\ LeftAccepted(c)
    /\ handler[c].pc = "h_done"
    /\ client_socket[c].closed
    /\ client_socket[c].reads = 2
    /\ handler[c].received = ChunkSize + 1
    /\ Successes = 1

\* The threads of run_server that have been started and have not ended.
AliveThreads == {t \in DOMAIN web_threads : web_threads[t] # "dead"}

\* C38: at most one thread of the HTTP server is alive at any time, and
\* it is the one self.web_server_thread names; a call of start_web_server
\* that finds this thread alive, serving or still starting, creates no
\* thread.
C38_OneAlive ==
    /\ Cardinality(AliveThreads) <= 1
    /\ AliveThreads \subseteq {web_server_thread}
C38_Step ==
    (monitor.pc = "m_start" /\ monitor'.pc # "m_start"
        /\ IsAlive(web_server_thread)) =>
        UNCHANGED <<web_server_thread, web_threads>>
C38_OneServerThread == [](C38_OneAlive) /\ [][C38_Step]_vars
C38_Witness ==
    /\ monitor.pc = "m_start"
    /\ monitor.ticks = 2
    /\ web_port = "free"
    /\ web_server_thread = 1
    /\ web_threads = <<"starting">>

\* ------------------------------------------------------------------
\* Vocabulary of the claims about the empty file
\* ------------------------------------------------------------------

\* send_file has been called with a file of no bytes.
SendsEmpty == source = FileOf(0) /\ sender.calls >= 1

\* The handler has accepted a header that declares no bytes.
ReceivesEmpty(c) ==
    /\ handler[c].result = "True"
    /\ handler[c].file_info.filesize = IntValue(0)

\* C39: send_file of a file of size 0 writes the header with filesize 0
\* and no body byte, never enters the loop body with its progress update
\* and its division by total_size, and reports success when no call
\* before the loop raised; the handler of a header with filesize 0
\* creates an empty destination file, reads no body byte, and issues the
\* success notification and closes when open() did not raise.
C39_EmptyFile ==
    /\ SendsEmpty =>
           /\ Len(wire) <= 1
           /\ wire # <<>> =>
                  /\ wire[1].kind = "header"
                  /\ wire[1].fields.filesize = IntValue(0)
           /\ sender.pc \notin {"s_read", "s_send"}
           /\ sender.sent = 0
           /\ sender.total_size = 0
           /\ sender.error \in {"none", "socket", "connect", "send"}
           /\ (sender.pc = "s_done" /\ sender.error = "none") =>
                  /\ sender.reported = "success"
                  /\ wire # <<>>
    /\ \A c \in Conns :
       ReceivesEmpty(c) =>
           /\ handler[c].pc \notin {"h_recv", "h_write"}
           /\ client_socket[c].last_recv.phase = "header"
           /\ client_socket[c].pos = 0
           /\ handler[c].received = 0
           /\ handler[c].error \in {"none", "open"}
           /\ (handler[c].pc \in {"h_while", "h_notify", "h_finally", "h_done"}
                 /\ handler[c].error = "none") =>
                  /\ handler[c].file_info.filename \in DOMAIN downloads
                  /\ Destination(c) = <<>>
           /\ (handler[c].pc \in {"h_finally", "h_done"}
                 /\ handler[c].error = "none") => Notified("completed")
           /\ handler[c].pc = "h_done" => client_socket[c].closed
C39_Witness ==
    /\ SendsEmpty
    /\ sender.pc = "s_done"
    /\ sender.reported = "success"
    /\ Len(wire) = 1
    /\ ReceivesEmpty(1)
    /\ handler[1].pc = "h_done"
    /\ handler[1].error = "none"
    /\ downloads = [x \in {"a.txt"} |-> <<>>]
    /\ Notified("completed")

====
